---- MODULE Spec2Model ----
(***************************************************************************)
(* Bonsai tracker: the collection database (Species, Tree, TreeUpdate,     *)
(* Photo, Reminder rows), the image files, the export/import archive codec *)
(* and the UI handlers of src/src/app.py that change them, the page and    *)
(* confirmation state of one browser session (st.session_state), the       *)
(* reminder notifier of src/src/notifications.py and the one-off schema    *)
(* migration of src/src/migrate_db.py.                                     *)
(*                                                                         *)
(* The variables hold the COMMITTED database state: every handler is one   *)
(* action, from the button press to the end of the script run, and what a  *)
(* handler added to its session without committing is dropped by the       *)
(* db.close() that ends it.                                                *)
(***************************************************************************)
EXTENDS Integers, Sequences, FiniteSets, TLC

VARIABLES
    species,        \* rows of table species:      [id, name]
    trees,          \* rows of table trees
    updates,        \* rows of table tree_updates
    photos,         \* rows of table photos
    reminders,      \* rows of table reminders
    files,          \* paths of the image files that exist in storage
    exported,       \* the archive the last "Export Data" produced (the user's download)
    backup,         \* the uploaded backup file at st.session_state.temp_path
    restore_state,  \* st.session_state.restore_state
    success,        \* what the last call of import_bonsai_data gave its caller
    assigned,       \* history: the tree numbers "Add Tree" has given to stored trees
    session,        \* st.session_state: page, selections, confirmations
    confirmed,      \* history: the trees whose "Yes, Delete" was pressed
    outbox,         \* the send attempts of send_notification, by reminder id
    backup_db       \* the file data/bonsai_backup.db of migrate_db.py

dbVars == <<species, trees, updates, photos, reminders>>
sideVars == <<confirmed, outbox, backup_db>>
vars == <<species, trees, updates, photos, reminders, files, exported, backup,
          restore_state, success, assigned, session, confirmed, outbox, backup_db>>

----------------------------------------------------------------------------
(* Bounds of the model *)

MaxTrees == 2       \* tree rows in the table at once
MaxRows == 2        \* rows at once in each of tree_updates, photos, reminders
MaxId == 4          \* primary keys are capped here
MaxDay == 2         \* calendar days 1..MaxDay
MaxTod == 1         \* times of day: 0 is midnight, 1..MaxTod are later instants
MaxGirth == 1       \* trunk widths 0..MaxGirth
MaxSends == 2       \* send attempts counted for one reminder

----------------------------------------------------------------------------
(* Values *)

None == -1                          \* Python None, SQL NULL, JSON null (where a number may stand)
NoFile == "NoFile"                  \* no file was uploaded (where an extension may stand)

Days == 1..MaxDay
DateTimes == [date : Days, tod : 0..MaxTod]
Midnight(d) == [date |-> d, tod |-> 0]          \* datetime.combine(d, datetime.min.time())
Girths == 0..MaxGirth
TreeNames == {"Tree" \o ToString(i) : i \in 1..MaxTrees}
SpeciesNames == {"Pine", "Elm"}
Texts == {"", "wired"}
Exts == {".jpg", ".png"}

Max(S) == CHOOSE m \in S : \A n \in S : n <= m

\* The rowid SQLite gives the next inserted row of an INTEGER PRIMARY KEY
\* table: one more than the largest rowid in the table, 1 in an empty table.
NextId(rows) == IF rows = {} THEN 1 ELSE Max({r.id : r \in rows}) + 1

\* The rows of a set as a sequence in rowid order (the order of a table scan).
RECURSIVE ById(_)
ById(rows) ==
    IF rows = {} THEN <<>>
    ELSE LET r == CHOOSE x \in rows : \A y \in rows : x.id <= y.id
         IN <<r>> \o ById(rows \ {r})

Range(s) == {s[i] : i \in 1..Len(s)}

----------------------------------------------------------------------------
(* The session of the browser and the files beside the database *)

\* The pages main draws for st.session_state.selected_tree.
TreePages == {"Update Tree", "Tree Gallery", "Edit Tree", "Work History"}

\* The pages of the sidebar buttons.
SidebarPages == {"Settings", "Species Notes", "Graveyard"}

\* st.session_state after the first run of main in a new session: the
\* defaults of main, and of show_reminder_popup with the reminders pending
\* drawn in its form.  confirm_delete and the stateful buttons "Delete
\* Forever" (delete_pressed: the trees whose button is on) are not set yet.
NewSession(pending) ==
    [page |-> "View Trees",
     selected_tree |-> None,
     selected_species |-> None,
     reminders_checked |-> IF pending = {} THEN "True" ELSE "False",
     popup |-> pending,
     confirm_delete |-> "unset",
     delete_pressed |-> {}]

\* No file data/bonsai_backup.db.
NoBackup == [exists |-> FALSE, species |-> {}, trees |-> {}, updates |-> {},
             photos |-> {}, reminders |-> {}]

----------------------------------------------------------------------------
(* Tree numbers *)

\* Python's f"{n:03d}".
Pad3(n) ==
    IF n < 10 THEN "00" \o ToString(n)
    ELSE IF n < 100 THEN "0" \o ToString(n)
    ELSE ToString(n)

\* Mutant: the row count itself, without the + 1.
generate_tree_number_from_count(treeRows) == "BON-" \o Pad3(Cardinality(treeRows))

generate_tree_number(treeRows) == "BON-" \o Pad3(Cardinality(treeRows) + 1)

----------------------------------------------------------------------------
(* Species *)

SpeciesNamed(spRows, name) == {s \in spRows : s.name = name}

\* Mutant: a species row is created whether or not the name is there.
get_or_create_species_always(spRows, name) ==
    spRows \cup {[id |-> NextId(spRows), name |-> name]}

\* The species table after get_or_create_species(name) committed.
get_or_create_species(spRows, name) ==
    IF SpeciesNamed(spRows, name) # {} THEN spRows
    ELSE spRows \cup {[id |-> NextId(spRows), name |-> name]}

SpeciesId(spRows, name) == (CHOOSE s \in spRows : s.name = name).id

----------------------------------------------------------------------------
(* Image files *)

\* The clock as strftime("%Y%m%d_%H%M%S") orders it.
Stamp(now) == now.date * (MaxTod + 1) + now.tod

\* save_uploaded_image: data/images/tree_<timestamp><ext>, the timestamp
\* taken from the clock when the file is saved.
UploadPath(now, ext) ==
    [dir |-> "data/images", name |-> <<"tree", now.date, now.tod>>, ext |-> ext]

----------------------------------------------------------------------------
(* Handlers of the tree life cycle *)

\* The unique constraints of table trees.
TreeInsertOk(treeRows, number, name) ==
    \A t \in treeRows : t.tree_number # number /\ t.tree_name # name

\* "Add Tree" (show_add_tree_form).  uploaded is NoFile or the extension of
\* the uploaded file; now is the clock when the photo is saved.
AddTree(tree_name, species_name, current_girth, date_acquired, origin_date, notes, uploaded, now) ==
    LET new_tree_number == generate_tree_number(trees)
        sp == get_or_create_species(species, species_name)
        id == NextId(trees)
        new_tree == [id |-> id,
                     tree_number |-> new_tree_number,
                     tree_name |-> tree_name,
                     species_id |-> SpeciesId(sp, species_name),
                     date_acquired |-> Midnight(date_acquired),
                     origin_date |-> Midnight(origin_date),
                     current_girth |-> current_girth,
                     notes |-> notes,
                     is_archived |-> 0]
        path == UploadPath(now, uploaded)
    IN /\ Cardinality(trees) < MaxTrees
       /\ id <= MaxId
       /\ species' = sp
       /\ IF TreeInsertOk(trees, new_tree_number, tree_name)
          THEN /\ trees' = trees \cup {new_tree}
               /\ assigned' = assigned \cup {new_tree_number}
               /\ session' = [session EXCEPT !.page = "View Trees"]
               /\ IF uploaded # NoFile
                  THEN /\ Cardinality(photos) < MaxRows
                       /\ NextId(photos) <= MaxId
                       /\ files' = files \cup {path}
                       /\ photos' = photos \cup
                              {[id |-> NextId(photos), tree_id |-> id,
                                file_path |-> path, photo_date |-> now,
                                description |-> "Initial photo",
                                is_starred |-> 0]}
                  ELSE UNCHANGED <<files, photos>>
          ELSE \* IntegrityError at db.commit(): caught, the tree is not stored
               UNCHANGED <<trees, assigned, files, photos, session>>
       /\ UNCHANGED <<updates, reminders, exported, backup, restore_state, success,
                      sideVars>>

\* "Add to Graveyard" (show_update_form).
AddToGraveyard(t, work_description, now) ==
    /\ t \in trees
    /\ Cardinality(updates) < MaxRows
    /\ NextId(updates) <= MaxId
    /\ updates' = updates \cup
           {[id |-> NextId(updates), tree_id |-> t.id, update_date |-> now,
             girth |-> None, work_performed |-> work_description]}
    /\ trees' = (trees \ {t}) \cup {[t EXCEPT !.is_archived = 1]}
    /\ UNCHANGED <<species, photos, reminders, files, exported, backup,
                   restore_state, success, assigned, sideVars>>
    /\ session' = [session EXCEPT !.page = "Graveyard"]

\* One year in hundredths of a day: the divisor 365.25 of the ages.
YearInHundredthDays == 36525

\* (now - then).days: the whole days of the difference, rounded down.
ElapsedDays(now, then) == (Stamp(now) - Stamp(then)) \div (MaxTod + 1)

\* The float days / 365.25, kept as the fraction num / den.  The division of
\* an integer by 365.25 always gives a float: it never raises and never
\* gives NaN.
Years(days) == [kind |-> "number", num |-> days * 100, den |-> YearInHundredthDays]

\* Tree.training_age, read at the time now.
training_age(t, now) == Years(ElapsedDays(now, t.date_acquired))

\* Tree.true_age, read at the time now.
true_age(t, now) == Years(ElapsedDays(now, t.origin_date))

\* "Restore" in the graveyard (show_graveyard_trees).
RestoreTree(t) ==
    /\ t \in trees
    /\ t.is_archived = 1
    /\ trees' = (trees \ {t}) \cup {[t EXCEPT !.is_archived = 0]}
    /\ UNCHANGED <<species, updates, photos, reminders, files, exported, backup,
                   restore_state, success, assigned, session, sideVars>>

\* Mutant: the tree row is deleted without its cascade.
DeleteForever_without_cascade(t) ==
    /\ t \in trees
    /\ t.is_archived = 1
    /\ files' = files \ {p.file_path : p \in {q \in photos : q.tree_id = t.id}}
    /\ trees' = trees \ {t}
    /\ UNCHANGED <<species, updates, photos, reminders, exported, backup,
                   restore_state, success, assigned, session, sideVars>>

\* "Delete Forever", confirmed (show_graveyard_trees): the files of the
\* tree's photos are removed and the tree row is deleted with its cascade.
DeleteForever(t) ==
    /\ t \in trees
    /\ t.is_archived = 1
    /\ files' = files \ {p.file_path : p \in {q \in photos : q.tree_id = t.id}}
    /\ trees' = trees \ {t}
    /\ updates' = {u \in updates : u.tree_id # t.id}
    /\ photos' = {p \in photos : p.tree_id # t.id}
    /\ reminders' = {r \in reminders : r.tree_id # t.id}
    /\ UNCHANGED <<species, exported, backup, restore_state, success, assigned, session, sideVars>>

----------------------------------------------------------------------------
(* Handlers of updates and photos *)

\* One uploaded file of "Save Update": its extension, the clock when
\* save_uploaded_image stored it and the date get_exif_date read from it.
Uploads(clocks, exifs) == [ext : Exts, stamp : clocks, exif : exifs]

\* The photo rows "Save Update" adds for the uploaded files, the first with
\* rowid first_id.
UploadedPhotos(tree_id, uploaded_files, work_description, first_id) ==
    {[id |-> first_id + i - 1,
      tree_id |-> tree_id,
      file_path |-> UploadPath(uploaded_files[i].stamp, uploaded_files[i].ext),
      photo_date |-> uploaded_files[i].exif,
      description |-> work_description,
      is_starred |-> 0] : i \in 1..Len(uploaded_files)}

\* "Save Update" (show_update_form).  set_reminder is the "Set Reminder"
\* checkbox; reminder_date is None when the date field was cleared.
SaveUpdate(t, current_girth, update_date, work_description, uploaded_files, set_reminder, reminder_date, reminder_message) ==
    /\ t \in trees
    /\ IF set_reminder /\ (reminder_date = None \/ reminder_message = "")
       THEN \* st.error and st.rerun(): the run ends before anything is added
            UNCHANGED <<trees, updates, photos, reminders, files, session>>
       ELSE /\ Cardinality(updates) < MaxRows
            /\ NextId(updates) <= MaxId
            /\ Cardinality(photos) + Len(uploaded_files) <= MaxRows
            /\ NextId(photos) + Len(uploaded_files) - 1 <= MaxId
            /\ \A i \in 1..Len(uploaded_files) - 1 :
                   Stamp(uploaded_files[i].stamp) <= Stamp(uploaded_files[i + 1].stamp)
            /\ updates' = updates \cup
                   {[id |-> NextId(updates), tree_id |-> t.id,
                     update_date |-> Midnight(update_date),
                     girth |-> current_girth,
                     work_performed |-> work_description]}
            /\ trees' = (trees \ {t}) \cup {[t EXCEPT !.current_girth = current_girth]}
            /\ session' = [session EXCEPT !.page = "View Trees"]
            /\ files' = files \cup
                   {UploadPath(uploaded_files[i].stamp, uploaded_files[i].ext) :
                        i \in 1..Len(uploaded_files)}
            /\ photos' = photos \cup
                   UploadedPhotos(t.id, uploaded_files, work_description, NextId(photos))
            /\ IF set_reminder
               THEN /\ Cardinality(reminders) < MaxRows
                    /\ NextId(reminders) <= MaxId
                    /\ reminders' = reminders \cup
                           {[id |-> NextId(reminders), tree_id |-> t.id,
                             reminder_date |-> Midnight(reminder_date),
                             message |-> reminder_message,
                             is_completed |-> 0,
                             notification_sent |-> 0]}
               ELSE UNCHANGED reminders
    /\ UNCHANGED <<species, exported, backup, restore_state, success, assigned, sideVars>>

\* The files "Save Update" has stored when it stops at step failing: the
\* files before that one, and that one too if it was opened before the
\* write failed.  Step Len(uploaded_files) + 1 is db.commit().
StoredBefore(uploaded_files, failing, opened) ==
    {UploadPath(uploaded_files[i].stamp, uploaded_files[i].ext) :
        i \in {k \in 1..Len(uploaded_files) : k < failing \/ (k = failing /\ opened)}}

\* Mutant: the update and the girth are committed before the files are saved.
SaveUpdateFails_after_commit(t, current_girth, update_date, work_description, uploaded_files, failing, opened) ==
    /\ t \in trees
    /\ failing \in 1..Len(uploaded_files) + 1
    /\ Cardinality(updates) < MaxRows
    /\ NextId(updates) <= MaxId
    /\ updates' = updates \cup
           {[id |-> NextId(updates), tree_id |-> t.id,
             update_date |-> Midnight(update_date),
             girth |-> current_girth, work_performed |-> work_description]}
    /\ trees' = (trees \ {t}) \cup {[t EXCEPT !.current_girth = current_girth]}
    /\ files' = files \cup StoredBefore(uploaded_files, failing, opened)
    /\ UNCHANGED <<species, photos, reminders, exported, backup, restore_state,
                   success, assigned, session, sideVars>>

\* "Save Update" (show_update_form) with valid fields, stopped by an error
\* of the storage: save_uploaded_image raises at file failing, or
\* db.commit() raises.  Nothing was committed before; the exception leaves
\* the handler and db.close() drops the session.
SaveUpdateFails(t, current_girth, update_date, work_description, uploaded_files, failing, opened) ==
    /\ t \in trees
    /\ failing \in 1..Len(uploaded_files) + 1
    /\ files' = files \cup StoredBefore(uploaded_files, failing, opened)
    /\ UNCHANGED <<species, trees, updates, photos, reminders, exported, backup,
                   restore_state, success, assigned, session, sideVars>>

\* "Save Changes" of the edit form in the work history (show_work_history):
\* the three fields of the update are written, the tree is not touched.
EditUpdate(u, edit_date, edit_girth, edit_work) ==
    /\ u \in updates
    /\ updates' = (updates \ {u}) \cup
           {[u EXCEPT !.update_date = Midnight(edit_date),
                      !.girth = edit_girth,
                      !.work_performed = edit_work]}
    /\ UNCHANGED <<species, trees, photos, reminders, files, exported, backup,
                   restore_state, success, assigned, session, sideVars>>

\* The delete button of an update and "Yes, Delete" (show_work_history).
DeleteUpdate(u) ==
    /\ u \in updates
    /\ updates' = updates \ {u}
    /\ UNCHANGED <<species, trees, photos, reminders, files, exported, backup,
                   restore_state, success, assigned, session, sideVars>>

\* Mutant: the star is toggled without clearing the tree's other stars.
StarToggled_keeping_others(photoRows, p) ==
    (photoRows \ {p}) \cup {[p EXCEPT !.is_starred = 1 - p.is_starred]}

\* The photos table after the star button of photo p (show_tree_gallery).
StarToggled(photoRows, p) ==
    LET cleared == IF p.is_starred = 0
                   THEN {IF q.tree_id = p.tree_id /\ q.id # p.id
                         THEN [q EXCEPT !.is_starred = 0] ELSE q : q \in photoRows}
                   ELSE photoRows
    IN (cleared \ {p}) \cup {[p EXCEPT !.is_starred = 1 - p.is_starred]}

\* The star button in the gallery; only photos whose file exists get one.
ToggleStar(p) ==
    /\ p \in photos
    /\ p.file_path \in files
    /\ photos' = StarToggled(photos, p)
    /\ UNCHANGED <<species, trees, updates, reminders, files, exported, backup,
                   restore_state, success, assigned, session, sideVars>>

\* "Delete", then "Yes", in the gallery.
DeletePhoto(p) ==
    /\ p \in photos
    /\ p.file_path \in files
    /\ files' = files \ {p.file_path}
    /\ photos' = photos \ {p}
    /\ UNCHANGED <<species, trees, updates, reminders, exported, backup,
                   restore_state, success, assigned, session, sideVars>>

\* "Edit Date", then "Save", in the gallery.
EditPhotoDate(p, new_date) ==
    /\ p \in photos
    /\ p.file_path \in files
    /\ photos' = (photos \ {p}) \cup {[p EXCEPT !.photo_date = Midnight(new_date)]}
    /\ UNCHANGED <<species, trees, updates, reminders, files, exported, backup,
                   restore_state, success, assigned, session, sideVars>>

----------------------------------------------------------------------------
(* Handlers of the species and of a tree's details *)

\* The first option of the species selectbox.
AddNewSpecies == "Add New Species"

\* The options of the species selectbox (show_add_tree_form, show_edit_tree_form).
species_options(spRows) == {AddNewSpecies} \cup {s.name : s \in spRows}

\* The species name a tree form hands to get_or_create_species.
FormSpecies(species_selection, new_species) ==
    IF species_selection = AddNewSpecies THEN new_species ELSE species_selection

\* "Add Tree" with the species widgets (show_add_tree_form): an empty
\* selection is refused, the text of "Enter New Species Name" is not looked at.
AddTreeForm(tree_name, species_selection, new_species, current_girth, date_acquired, origin_date, notes, uploaded, now) ==
    /\ species_selection \in species_options(species)
    /\ IF species_selection = ""
       THEN \* st.error("Species is required!") and return
            UNCHANGED vars
       ELSE AddTree(tree_name, FormSpecies(species_selection, new_species),
                    current_girth, date_acquired, origin_date, notes, uploaded, now)

\* "Save Changes" of show_edit_tree_form.  The species is committed by
\* get_or_create_species before the tree is; a tree_name another tree has
\* makes the commit of the tree fail, which is caught.
EditTree(t, tree_name, species_selection, new_species, date_acquired, origin_date, notes) ==
    LET sp == get_or_create_species(species, FormSpecies(species_selection, new_species))
        edited == [t EXCEPT !.tree_name = tree_name,
                            !.species_id = SpeciesId(sp, FormSpecies(species_selection, new_species)),
                            !.date_acquired = Midnight(date_acquired),
                            !.origin_date = Midnight(origin_date),
                            !.notes = notes]
    IN /\ t \in trees
       /\ species_selection \in species_options(species)
       /\ species' = sp
       /\ IF \A o \in trees \ {t} : o.tree_name # tree_name
          THEN /\ trees' = (trees \ {t}) \cup {edited}
               /\ session' = [session EXCEPT !.page = "View Trees"]
          ELSE UNCHANGED <<trees, session>>
       /\ UNCHANGED <<updates, photos, reminders, files, exported, backup,
                      restore_state, success, assigned, sideVars>>

\* "Save Species" of the add form (show_species_notes).  The form builds
\* Species(name=..., notes=...) while class Species of models.py declares no
\* notes: has_notes says whether the Species class of the running build
\* takes one; if not, the TypeError is caught and nothing is stored.
AddSpecies(species_name, has_notes) ==
    /\ IF species_name # "" /\ SpeciesNamed(species, species_name) = {} /\ has_notes
       THEN species' = species \cup {[id |-> NextId(species), name |-> species_name]}
       ELSE UNCHANGED species
    /\ UNCHANGED <<trees, updates, photos, reminders, files, exported, backup,
                   restore_state, success, assigned, session, sideVars>>

\* "Save Changes" of show_edit_species_form.  Without a notes attribute the
\* form fails while it is drawn (species.notes) and nothing can be saved.
EditSpecies(s, species_name, has_notes) ==
    /\ s \in species
    /\ IF /\ has_notes
          /\ species_name # ""
          /\ \A o \in species : o.name = species_name => o.id = s.id
       THEN /\ species' = (species \ {s}) \cup {[s EXCEPT !.name = species_name]}
            /\ session' = [session EXCEPT !.page = "Species Notes"]
       ELSE UNCHANGED <<species, session>>
    /\ UNCHANGED <<trees, updates, photos, reminders, files, exported, backup,
                   restore_state, success, assigned, sideVars>>

\* Mutant: the species is deleted without counting its trees.
DeleteSpecies_uncounted(s) ==
    /\ s \in species
    /\ species' = species \ {s}
    /\ session' = [session EXCEPT !.selected_species =
                        IF @ = s.id THEN None ELSE @]
    /\ UNCHANGED <<trees, updates, photos, reminders, files, exported, backup,
                   restore_state, success, assigned, sideVars>>

\* The delete button of a species and its confirmation (show_species_notes):
\* "Yes, Delete" is offered only when no tree has the species.
DeleteSpecies(s) ==
    /\ s \in species
    /\ IF {t \in trees : t.species_id = s.id} # {}
       THEN UNCHANGED <<species, session>>
       ELSE /\ species' = species \ {s}
            /\ session' = [session EXCEPT !.selected_species =
                               IF @ = s.id THEN None ELSE @]
    /\ UNCHANGED <<trees, updates, photos, reminders, files, exported, backup,
                   restore_state, success, assigned, sideVars>>

----------------------------------------------------------------------------
(* Dates as text *)

\* datetime.isoformat(): the date and the time of day, both kept.
isoformat(dt) == [fmt |-> "iso", date |-> dt.date, tod |-> dt.tod]

\* Text that is no date, as a hand-made archive may hold.
NotADate == [fmt |-> "text", date |-> 0, tod |-> 0]

IsIso(s) == s.fmt = "iso"

\* datetime.fromisoformat() of text for which IsIso holds (else ValueError).
fromisoformat(s) == [date |-> s.date, tod |-> s.tod]

\* strftime("%Y%m%d"): the date alone, the time of day is dropped.
strftime_Ymd(dt) == [fmt |-> "ymd", date |-> dt.date]

\* An image name that does not start with a date.
Undatable == [fmt |-> "text", date |-> 0]

IsYmd(stem) == stem.fmt = "ymd"

\* datetime.strptime(stem, "%Y%m%d") of a stem for which IsYmd holds (else
\* ValueError): midnight of that day.
strptime_Ymd(stem) == Midnight(stem.date)

----------------------------------------------------------------------------
(* The collection as one value, and export_bonsai_data *)

DB == [species |-> species, trees |-> trees, updates |-> updates,
       photos |-> photos, reminders |-> reminders, files |-> files]

Of(rows, tree_id) == {r \in rows : r.tree_id = tree_id}

SpeciesName(d, t) == (CHOOSE s \in d.species : s.id = t.species_id).name

UpdateData(u) ==
    [date |-> isoformat(u.update_date), girth |-> u.girth,
     work_performed |-> u.work_performed]

PhotoData(p) ==
    [file_name |-> <<p.file_path.name, p.file_path.ext>>,
     photo_date |-> isoformat(p.photo_date),
     description |-> p.description, is_starred |-> p.is_starred]

ReminderData(r) ==
    [date |-> isoformat(r.reminder_date), message |-> r.message,
     is_completed |-> r.is_completed]

\* One entry of trees_data.json.
TreeData(d, t) ==
    LET us == ById(Of(d.updates, t.id))
        ps == ById(Of(d.photos, t.id))
        rs == ById(Of(d.reminders, t.id))
    IN [tree_number |-> t.tree_number,
        tree_name |-> t.tree_name,
        species |-> SpeciesName(d, t),
        date_acquired |-> isoformat(t.date_acquired),
        origin_date |-> isoformat(t.origin_date),
        current_girth |-> t.current_girth,
        notes |-> t.notes,
        is_archived |-> t.is_archived,
        updates |-> [i \in 1..Len(us) |-> UpdateData(us[i])],
        photos |-> [i \in 1..Len(ps) |-> PhotoData(ps[i])],
        reminders |-> [i \in 1..Len(rs) |-> ReminderData(rs[i])]]

\* Mutant: a copy of every photo, whether or not its file exists.
ExportedImages_unchecked(d) ==
    {[folder |-> t.tree_number, stem |-> strftime_Ymd(p.photo_date),
      ext |-> p.file_path.ext] :
        <<t, p>> \in {tp \in d.trees \X d.photos : tp[2].tree_id = tp[1].id}}

\* The files under images/: per photo whose file exists, a copy at
\* <tree_number>/<YYYYMMDD><ext>; a later copy to the same name overwrites.
ExportedImages(d) ==
    {[folder |-> t.tree_number, stem |-> strftime_Ymd(p.photo_date),
      ext |-> p.file_path.ext] :
        <<t, p>> \in {tp \in d.trees \X d.photos :
                          tp[2].tree_id = tp[1].id /\ tp[2].file_path \in d.files}}

\* A zip file: whether it can be read, whether it holds trees_data.json and
\* whether that parses, the parsed document and the files under images/.
ZipFile(zip_ok, json_state, json, images) ==
    [kind |-> "zip", zip_ok |-> zip_ok, json_state |-> json_state,
     json |-> json, images |-> images]

\* No file at all: nothing exported yet, no temp_path in the session.
NoArchive == [kind |-> "none", zip_ok |-> FALSE, json_state |-> "missing",
              json |-> <<>>, images |-> {}]

\* A path whose file is gone.
MissingFile == [NoArchive EXCEPT !.kind = "missing"]

\* Python's truth value of an integer column.
Truthy(x) == x # 0

\* The sheet "Trees Overview": a row for every tree of the data document.
\* The two age columns, read from the clock, are left out as they are in
\* the data document.
TreesOverview(trees_data) ==
    [i \in 1..Len(trees_data) |->
        [tree_number |-> trees_data[i].tree_number,
         name |-> trees_data[i].tree_name,
         species |-> trees_data[i].species,
         date_acquired |-> trees_data[i].date_acquired,
         trunk_width |-> trees_data[i].current_girth,
         status |-> IF Truthy(trees_data[i].is_archived) THEN "Archived" ELSE "Active"]]

\* The rows of the sheet "Work History" of one tree of the data document.
WorkHistoryOf(tree) ==
    [j \in 1..Len(tree.updates) |->
        [tree_number |-> tree.tree_number,
         tree_name |-> tree.tree_name,
         date |-> tree.updates[j].date,
         trunk_width |-> tree.updates[j].girth,
         work_performed |-> tree.updates[j].work_performed]]

\* The rows of the sheet "Reminders" of one tree of the data document.
RemindersOf(tree) ==
    [j \in 1..Len(tree.reminders) |->
        [tree_number |-> tree.tree_number,
         tree_name |-> tree.tree_name,
         date |-> tree.reminders[j].date,
         message |-> tree.reminders[j].message,
         status |-> IF Truthy(tree.reminders[j].is_completed)
                    THEN "Completed" ELSE "Pending"]]

\* updates_data: the rows of the first n trees, tree after tree.
RECURSIVE WorkHistory(_, _)
WorkHistory(trees_data, n) ==
    IF n = 0 THEN <<>>
    ELSE WorkHistory(trees_data, n - 1) \o WorkHistoryOf(trees_data[n])

\* reminders_data: the rows of the first n trees, tree after tree.
RECURSIVE RemindersSheet(_, _)
RemindersSheet(trees_data, n) ==
    IF n = 0 THEN <<>>
    ELSE RemindersSheet(trees_data, n - 1) \o RemindersOf(trees_data[n])

\* Mutant: a sheet "Reminders" with the pending reminders only.
bonsai_collection_xlsx_pending_only(trees_data) ==
    [overview |-> TreesOverview(trees_data),
     history |-> WorkHistory(trees_data, Len(trees_data)),
     reminders |-> SelectSeq(RemindersSheet(trees_data, Len(trees_data)),
                             LAMBDA row : row.status = "Pending")]

\* bonsai_collection.xlsx: the three sheets made of the data document.
bonsai_collection_xlsx(trees_data) ==
    [overview |-> TreesOverview(trees_data),
     history |-> WorkHistory(trees_data, Len(trees_data)),
     reminders |-> RemindersSheet(trees_data, Len(trees_data))]

\* The zip archive export_bonsai_data writes: the data document, the
\* images and the Excel file.
export_bonsai_data(d) ==
    LET ts == ById(d.trees)
        trees_data == [i \in 1..Len(ts) |-> TreeData(d, ts[i])]
    IN ZipFile(TRUE, "ok", trees_data, ExportedImages(d))
           @@ [xlsx |-> bonsai_collection_xlsx(trees_data)]

\* The export location: the directory bonsai_export_<timestamp> that
\* export_bonsai_data fills and the archive bonsai_export_<timestamp>.zip.
ExportPath(now) == [entry |-> "directory", name |-> <<"bonsai_export", now.date, now.tod>>]

ZipPath(now) == [entry |-> "file", name |-> <<"bonsai_export", now.date, now.tod>>]

\* Mutant: the export directory is not removed.
export_location_keeping_directory(location, now) ==
    location \cup {ExportPath(now), ZipPath(now)}

\* The entries of the export location after export_bonsai_data returned:
\* os.makedirs(export_path), the zip written beside it, shutil.rmtree.
export_location(location, now) ==
    ((location \cup {ExportPath(now)}) \cup {ZipPath(now)}) \ {ExportPath(now)}

----------------------------------------------------------------------------
(* import_bonsai_data *)

\* The species of a tree record: the row of that name, created if missing.
import_species(spRows, name) ==
    IF SpeciesNamed(spRows, name) # {} THEN spRows
    ELSE spRows \cup {[id |-> NextId(spRows), name |-> name]}

\* Mutant: the restored tree is always active.
RestoredTree_active(rec, species_id, id) ==
    [id |-> id, tree_number |-> rec.tree_number, tree_name |-> rec.tree_name,
     species_id |-> species_id,
     date_acquired |-> fromisoformat(rec.date_acquired),
     origin_date |-> fromisoformat(rec.origin_date),
     current_girth |-> rec.current_girth, notes |-> rec.notes,
     is_archived |-> 0]

\* The Tree row of a tree record.
RestoredTree(rec, species_id, id) ==
    [id |-> id, tree_number |-> rec.tree_number, tree_name |-> rec.tree_name,
     species_id |-> species_id,
     date_acquired |-> fromisoformat(rec.date_acquired),
     origin_date |-> fromisoformat(rec.origin_date),
     current_girth |-> rec.current_girth, notes |-> rec.notes,
     is_archived |-> rec.is_archived]

RestoredUpdates(rec, tree_id, first_id) ==
    {[id |-> first_id + j - 1, tree_id |-> tree_id,
      update_date |-> fromisoformat(rec.updates[j].date),
      girth |-> rec.updates[j].girth,
      work_performed |-> rec.updates[j].work_performed] :
         j \in 1..Len(rec.updates)}

RestoredReminders(rec, tree_id, first_id) ==
    {[id |-> first_id + j - 1, tree_id |-> tree_id,
      reminder_date |-> fromisoformat(rec.reminders[j].date),
      message |-> rec.reminders[j].message,
      is_completed |-> rec.reminders[j].is_completed,
      notification_sent |-> 0] :
         j \in 1..Len(rec.reminders)}

\* The loop over trees_data from record i on: [db, exc], the committed
\* collection and the exception that ended the loop ("none": it finished).
RECURSIVE RestoreTrees(_, _, _)
RestoreTrees(d, recs, i) ==
    IF i > Len(recs) THEN [db |-> d, exc |-> "none"]
    ELSE LET rec == recs[i]
             sp == import_species(d.species, rec.species)
             d1 == [d EXCEPT !.species = sp]
             id == NextId(d.trees)
             d2 == [d1 EXCEPT !.trees = @ \cup
                        {RestoredTree(rec, SpeciesId(sp, rec.species), id)}]
             d3 == [d2 EXCEPT
                        !.updates = @ \cup RestoredUpdates(rec, id, NextId(d.updates)),
                        !.reminders = @ \cup RestoredReminders(rec, id, NextId(d.reminders))]
         IN IF ~IsIso(rec.date_acquired) \/ ~IsIso(rec.origin_date)
            THEN [db |-> d1, exc |-> "ValueError"]
            ELSE IF ~TreeInsertOk(d.trees, rec.tree_number, rec.tree_name)
            THEN [db |-> d1, exc |-> "IntegrityError"]
            ELSE IF \/ \E j \in 1..Len(rec.updates) : ~IsIso(rec.updates[j].date)
                    \/ \E j \in 1..Len(rec.reminders) : ~IsIso(rec.reminders[j].date)
            THEN [db |-> d2, exc |-> "ValueError"]
            ELSE RestoreTrees(d3, recs, i + 1)

\* Where import copies an image of the archive to.
ImportPath(e) ==
    [dir |-> "bonsai_images/" \o e.folder, name |-> <<e.stem>>, ext |-> e.ext]

\* Mutant: a folder of no tree stops the import (tree.id of None).
RestoreImages_needing_tree(d, listing, i) ==
    IF \A k \in 1..Len(listing) : \E t \in d.trees : t.tree_number = listing[k].folder
    THEN [db |-> [d EXCEPT !.files = @ \cup {ImportPath(listing[k]) : k \in 1..Len(listing)}],
          exc |-> "none"]
    ELSE [db |-> d, exc |-> "AttributeError"]

\* The loop over the image folders, listing being the order in which
\* os.listdir gives the files, from entry i on.  d.photos holds the photos
\* added to the session; they are committed when the loop finishes.
RECURSIVE RestoreImages(_, _, _)
RestoreImages(d, listing, i) ==
    IF i > Len(listing) THEN [db |-> d, exc |-> "none"]
    ELSE LET e == listing[i]
             owners == {t \in d.trees : t.tree_number = e.folder}
         IN IF owners = {} THEN RestoreImages(d, listing, i + 1)
            ELSE LET tree == CHOOSE t \in owners : TRUE
                     d1 == [d EXCEPT !.files = @ \cup {ImportPath(e)}]
                     photo == [id |-> NextId(d.photos), tree_id |-> tree.id,
                               file_path |-> ImportPath(e),
                               photo_date |-> strptime_Ymd(e.stem),
                               description |-> "Imported photo",
                               is_starred |-> 0]
                 IN IF ~IsYmd(e.stem)
                    THEN [db |-> [d1 EXCEPT !.photos = {}], exc |-> "ValueError"]
                    ELSE RestoreImages([d1 EXCEPT !.photos = @ \cup {photo}],
                                       listing, i + 1)

\* Mutant: the photos are not deleted.
Cleared_keeping_photos(d) ==
    [d EXCEPT !.updates = {}, !.reminders = {}, !.trees = {}]

\* Mutant: the updates are not deleted.
Cleared_keeping_updates(d) ==
    [d EXCEPT !.photos = {}, !.reminders = {}, !.trees = {}]

\* The four tables import deletes, emptied and committed.
Cleared(d) ==
    [d EXCEPT !.photos = {}, !.updates = {}, !.reminders = {}, !.trees = {}]

\* Mutant: the tables are emptied before the archive is looked at.
import_run_delete_first(d, a, listing) ==
    IF a.kind = "missing" THEN [db |-> Cleared(d), exc |-> "FileNotFoundError"]
    ELSE IF ~a.zip_ok THEN [db |-> Cleared(d), exc |-> "BadZipFile"]
    ELSE IF a.json_state = "missing" THEN [db |-> Cleared(d), exc |-> "FileNotFoundError"]
    ELSE IF a.json_state = "corrupt" THEN [db |-> Cleared(d), exc |-> "JSONDecodeError"]
    ELSE LET r == RestoreTrees(Cleared(d), a.json, 1)
         IN IF r.exc # "none" THEN r ELSE RestoreImages(r.db, listing, 1)

\* The body of import_bonsai_data's try block: [db, exc].
import_run(d, a, listing) ==
    IF a.kind = "missing" THEN [db |-> d, exc |-> "FileNotFoundError"]
    ELSE IF ~a.zip_ok THEN [db |-> d, exc |-> "BadZipFile"]
    ELSE IF a.json_state = "missing" THEN [db |-> d, exc |-> "FileNotFoundError"]
    ELSE IF a.json_state = "corrupt" THEN [db |-> d, exc |-> "JSONDecodeError"]
    ELSE LET r == RestoreTrees(Cleared(d), a.json, 1)
         IN IF r.exc # "none" THEN r ELSE RestoreImages(r.db, listing, 1)

\* Mutant: an except clause that names the errors of a bad archive only.
Caught_archive_errors(exc) == exc \in {"FileNotFoundError", "BadZipFile", "JSONDecodeError"}

\* "except Exception": every exception the try block raises is one.
Caught(exc) ==
    exc \in {"FileNotFoundError", "BadZipFile", "JSONDecodeError", "ValueError",
             "IntegrityError"}

\* import_bonsai_data: [db, result], result being "True", "False", or
\* "raised" when the exception leaves the function.
import_bonsai_data(d, a, listing) ==
    LET r == import_run(d, a, listing)
    IN [db |-> r.db,
        result |-> IF r.exc = "none" THEN "True"
                   ELSE IF Caught(r.exc) THEN "False" ELSE "raised"]

\* The orders in which os.listdir may give the images of an archive: folder
\* by folder, the folders and the files of a folder in any order.
Listings(a) ==
    LET n == Cardinality(a.images)
    IN {s \in [1..n -> a.images] :
          /\ \A i, j \in 1..n : i # j => s[i] # s[j]
          /\ \A i, j, k \in 1..n :
                 (i < j /\ j < k /\ s[i].folder = s[k].folder)
                     => s[j].folder = s[i].folder}


----------------------------------------------------------------------------
(* Handlers of export and restore *)

\* "Export Data" in the sidebar (main): the archive is handed to the user.
ExportData ==
    /\ exported' = export_bonsai_data(DB)
    /\ UNCHANGED <<species, trees, updates, photos, reminders, files, backup,
                   restore_state, success, assigned, session, sideVars>>

\* "Restore from Backup" with the box ticked and file a uploaded
\* (show_settings_form): the file is kept and the confirmation is asked.
UploadBackup(a) ==
    /\ restore_state = "upload"
    /\ a.kind = "zip"
    /\ backup' = a
    /\ restore_state' = "confirm"
    /\ UNCHANGED <<species, trees, updates, photos, reminders, files, exported,
                   success, assigned, session, sideVars>>

\* Mutant: the button is not disabled while the box is unticked.
RestoreFromBackup_always_enabled(uploaded_file, confirm_checkbox) ==
    IF uploaded_file.kind = "zip"
    THEN UploadBackup(uploaded_file)
    ELSE restore_state = "upload" /\ UNCHANGED vars

\* The button "Restore from Backup" of the upload state
\* (show_settings_form): disabled while the box is unticked, an error
\* message when no file was uploaded.
RestoreFromBackup(uploaded_file, confirm_checkbox) ==
    IF confirm_checkbox /\ uploaded_file.kind = "zip"
    THEN UploadBackup(uploaded_file)
    ELSE restore_state = "upload" /\ UNCHANGED vars

\* "Yes, Restore Data" (show_settings_form): import_bonsai_data on the kept
\* file, os.listdir giving the images in the order listing.
RestoreData(listing) ==
    /\ restore_state = "confirm"
    /\ LET r == import_bonsai_data(DB, backup, listing)
       IN /\ species' = r.db.species
          /\ trees' = r.db.trees
          /\ updates' = r.db.updates
          /\ photos' = r.db.photos
          /\ reminders' = r.db.reminders
          /\ files' = r.db.files
          /\ success' = r.result
          /\ IF r.result = "True"
             THEN restore_state' = "upload" /\ backup' = NoArchive
             ELSE UNCHANGED <<restore_state, backup>>
    /\ UNCHANGED <<exported, assigned, session, sideVars>>

\* "Cancel" in the confirmation (show_settings_form).
CancelRestore ==
    /\ restore_state = "confirm"
    /\ restore_state' = "upload"
    /\ backup' = NoArchive
    /\ UNCHANGED <<species, trees, updates, photos, reminders, files, exported,
                   success, assigned, session, sideVars>>

\* The kept file is removed from the temporary directory by its owner,
\* the operating system.
TempFileRemoved ==
    /\ restore_state = "confirm"
    /\ backup.kind = "zip"
    /\ backup' = MissingFile
    /\ UNCHANGED <<species, trees, updates, photos, reminders, files, exported,
                   restore_state, success, assigned, session, sideVars>>

----------------------------------------------------------------------------
(* Navigation, the reminder popup and the graveyard *)

\* Mutant: a card button sets the page and leaves the selected tree.
CardButton_keeping_selection(t, page_name) ==
    /\ session.page = "View Trees"
    /\ t \in trees
    /\ t.is_archived = 0
    /\ page_name \in TreePages
    /\ session' = [session EXCEPT !.page = page_name]
    /\ UNCHANGED <<dbVars, files, exported, backup, restore_state, success,
                   assigned, sideVars>>

\* The buttons of a tree card of "View Trees" (create_tree_card): Gallery,
\* History, Edit and Add Update.
CardButton(t, page_name) ==
    /\ session.page = "View Trees"
    /\ t \in trees
    /\ t.is_archived = 0
    /\ page_name \in TreePages
    /\ session' = [session EXCEPT !.page = page_name, !.selected_tree = t.id]
    /\ UNCHANGED <<dbVars, files, exported, backup, restore_state, success,
                   assigned, sideVars>>

\* A button of the sidebar (main), drawn on every page.
SidebarButton(page_name) ==
    /\ page_name \in SidebarPages
    /\ session.page # page_name
    /\ session' = [session EXCEPT !.page = page_name]
    /\ UNCHANGED <<dbVars, files, exported, backup, restore_state, success,
                   assigned, sideVars>>

\* "Back to Collection" on the pages that have it, and "Add New Tree" on
\* "View Trees" (main).
BackToCollection ==
    /\ session.page \in (TreePages \cup SidebarPages \cup {"Add New Tree"}) \ {"Edit Tree"}
    /\ session' = [session EXCEPT !.page = "View Trees"]
    /\ UNCHANGED <<dbVars, files, exported, backup, restore_state, success,
                   assigned, sideVars>>

AddNewTreeButton ==
    /\ session.page = "View Trees"
    /\ session' = [session EXCEPT !.page = "Add New Tree"]
    /\ UNCHANGED <<dbVars, files, exported, backup, restore_state, success,
                   assigned, sideVars>>

\* The name button and the edit button of a species in the list
\* (show_species_notes).
SpeciesButton(s, edit) ==
    /\ session.page = "Species Notes"
    /\ s \in species
    /\ session' = [session EXCEPT !.selected_species = s.id,
                                  !.page = IF edit THEN "Edit Species" ELSE @]
    /\ UNCHANGED <<dbVars, files, exported, backup, restore_state, success,
                   assigned, sideVars>>

\* "Edit Notes" under the notes of the selected species (show_species_notes):
\* drawn when the selected species is found.
EditNotesButton ==
    /\ session.page = "Species Notes"
    /\ \E s \in species : s.id = session.selected_species
    /\ session' = [session EXCEPT !.page = "Edit Species"]
    /\ UNCHANGED <<dbVars, files, exported, backup, restore_state, success,
                   assigned, sideVars>>

\* "Back to Species Notes" and "Cancel" (show_edit_species_form).
BackToSpeciesNotes ==
    /\ session.page = "Edit Species"
    /\ session' = [session EXCEPT !.page = "Species Notes"]
    /\ UNCHANGED <<dbVars, files, exported, backup, restore_state, success,
                   assigned, sideVars>>

\* get_pending_reminders: the reminders of a tree that are due today or
\* earlier and not completed.
get_pending_reminders(today) ==
    {r.id : r \in {q \in reminders : /\ q.reminder_date.date <= today
                                    /\ q.is_completed = 0
                                    /\ \E t \in trees : t.id = q.tree_id}}

\* The application is opened in a new browser session: the first run of
\* main, with show_reminder_popup.
OpenSession(today) ==
    /\ session' = NewSession(get_pending_reminders(today))
    /\ restore_state' = "upload"
    /\ backup' = NoArchive
    /\ confirmed' = {}
    /\ UNCHANGED <<dbVars, files, exported, success, assigned, outbox, backup_db>>

\* "Mark Selected as Complete" with the boxes of ticked ticked
\* (show_reminder_popup).  The press starts a new run of the script, in
\* which 'reminders_checked' is in st.session_state, set to False by the
\* first run: the body of show_reminder_popup is skipped, the form and its
\* button are not drawn and the loop that marks the reminders does not run.
MarkSelectedAsComplete(ticked) ==
    /\ session.popup # {}
    /\ ticked \subseteq session.popup
    /\ session' = [session EXCEPT !.popup = {}]
    /\ UNCHANGED <<dbVars, files, exported, backup, restore_state, success,
                   assigned, sideVars>>

\* "Delete Forever" of an archived tree (show_graveyard_trees), a stateful
\* button of streamlit_extras: a press switches it on or off and it stays
\* so over the following runs.
PressDeleteForever(t) ==
    /\ session.page = "Graveyard"
    /\ t \in trees
    /\ t.is_archived = 1
    /\ session' = [session EXCEPT
           !.delete_pressed = IF t.id \in @ THEN @ \ {t.id} ELSE @ \cup {t.id}]
    /\ UNCHANGED <<dbVars, files, exported, backup, restore_state, success,
                   assigned, sideVars>>

\* "Yes, Delete" under the warning of tree t (show_graveyard_trees): drawn
\* while the button of t is on and confirm_delete is not True.
PressYesDelete(t) ==
    /\ session.page = "Graveyard"
    /\ t \in trees
    /\ t.is_archived = 1
    /\ t.id \in session.delete_pressed
    /\ session.confirm_delete # "True"
    /\ session' = [session EXCEPT !.confirm_delete = "True"]
    /\ confirmed' = confirmed \cup {t.id}
    /\ UNCHANGED <<dbVars, files, exported, backup, restore_state, success,
                   assigned, outbox, backup_db>>

\* The archived trees whose "Delete Forever" is on, in the order of the
\* query of show_graveyard_trees.
PressedTrees == ById({t \in trees : t.is_archived = 1 /\ t.id \in session.delete_pressed})

\* A run of show_graveyard_trees with a button "Delete Forever" on.  With
\* confirm_delete True the first such tree is deleted and the script runs
\* again; confirm_delete is never set back.  Without it the run sets
\* confirm_delete to False, if it is not set, and draws the warnings.
GraveyardRun ==
    /\ session.page = "Graveyard"
    /\ PressedTrees # <<>>
    /\ IF session.confirm_delete = "True"
       THEN DeleteForever(PressedTrees[1])
       ELSE /\ session' = [session EXCEPT !.confirm_delete = "False"]
            /\ UNCHANGED <<dbVars, files, exported, backup, restore_state,
                           success, assigned, sideVars>>

----------------------------------------------------------------------------
(* notifications.py *)

\* The query of check_reminders: the reminders of a tree due today or
\* earlier whose notification_sent is false, as the query gives them.
due_reminders(today) ==
    ById({r \in reminders : /\ r.reminder_date.date <= today
                            /\ r.notification_sent = 0
                            /\ \E t \in trees : t.id = r.tree_id})

\* ReminderNotifier.check_reminders, run by the scheduler.  The module
\* uses the names Reminder and Tree without importing them: imported says
\* whether its user has bound them; if not, the NameError of the query is
\* caught and printed.  send_notification catches what sending raises, so
\* every call is a send attempt.  After each attempt the reminder is marked
\* and committed; the commit numbered failing raises (the database is
\* locked by the application), the loop ends and db.close() drops the mark.
\* failing = Len(due) + 1: no commit fails.
check_reminders(today, imported, failing) ==
    LET due == due_reminders(today)
        attempted == {due[i].id : i \in {k \in 1..Len(due) : k <= failing}}
        marked == {due[i].id : i \in {k \in 1..Len(due) : k < failing}}
    IN /\ failing \in 1..Len(due) + 1
       /\ IF imported
          THEN /\ \A id \in attempted : outbox[id] < MaxSends
               /\ outbox' = [id \in DOMAIN outbox |->
                                 IF id \in attempted THEN outbox[id] + 1 ELSE outbox[id]]
               /\ reminders' = {IF r.id \in marked
                                THEN [r EXCEPT !.notification_sent = 1] ELSE r :
                                    r \in reminders}
          ELSE UNCHANGED <<reminders, outbox>>
       /\ UNCHANGED <<species, trees, updates, photos, files, exported, backup,
                      restore_state, success, assigned, session, confirmed,
                      backup_db>>

----------------------------------------------------------------------------
(* migrate_db.py *)

\* The steps of migrate_database after the backup: the old rows are read,
\* the old file is removed, the new schema is created, and the species,
\* the trees and the other rows are inserted and committed.
MigrationSteps == {"read", "remove", "create", "species", "trees", "children"}

\* The rows of the database file.
Rows == [species |-> species, trees |-> trees, updates |-> updates,
         photos |-> photos, reminders |-> reminders]

\* backup_database: a copy of the database file.
backup_database(d) ==
    [exists |-> TRUE, species |-> d.species, trees |-> d.trees,
     updates |-> d.updates, photos |-> d.photos, reminders |-> d.reminders]

\* The step at which migrate_database raises, "none" if it does not.
\* failing is the step the storage lets fail.  The dictionaries of the
\* trees carry no tree_name, a column that is not nullable: with any tree
\* the commit of the trees raises an IntegrityError, if nothing raised
\* before.
FirstFailure(d, failing) ==
    IF d.trees # {} /\ failing \in {"children", "none"} THEN "trees" ELSE failing

\* The database file as the steps before the one that raises leave it.
\* Photos and reminders are inserted without is_starred and
\* notification_sent, which get their defaults.
PartlyMigrated(d, failure) ==
    IF failure \in {"read", "remove"} THEN d
    ELSE [species |-> IF failure \in {"create", "species"} THEN {} ELSE d.species,
          trees |-> IF failure = "none" THEN d.trees ELSE {},
          updates |-> IF failure = "none" THEN d.updates ELSE {},
          photos |-> IF failure = "none"
                     THEN {[q EXCEPT !.is_starred = 0] : q \in d.photos} ELSE {},
          reminders |-> IF failure = "none"
                        THEN {[r EXCEPT !.notification_sent = 0] : r \in d.reminders}
                        ELSE {}]

\* Mutant: a failed migration is left as it is.
migrate_database_without_restore(d, failing) ==
    PartlyMigrated(d, FirstFailure(d, failing))

\* The rows of the database file after migrate_database: when a step
\* raised, the backup is copied over the database file.
migrate_database(d, failing) ==
    LET failure == FirstFailure(d, failing)
        b == backup_database(d)
    IN IF failure = "none"
       THEN PartlyMigrated(d, failure)
       ELSE [species |-> b.species, trees |-> b.trees, updates |-> b.updates,
             photos |-> b.photos, reminders |-> b.reminders]

\* python migrate_db.py
MigrateDatabase(failing) ==
    /\ failing \in MigrationSteps \cup {"none"}
    /\ backup_db' = backup_database(Rows)
    /\ LET d == migrate_database(Rows, failing)
       IN /\ species' = d.species
          /\ trees' = d.trees
          /\ updates' = d.updates
          /\ photos' = d.photos
          /\ reminders' = d.reminders
    /\ UNCHANGED <<files, exported, backup, restore_state, success, assigned,
                   session, confirmed, outbox>>

----------------------------------------------------------------------------
(* Hand-made backup files *)

Iso(d) == isoformat(Midnight(d))

UpdateRecord(date) == [date |-> date, girth |-> 1, work_performed |-> "wired"]

ReminderRecord(date) == [date |-> date, message |-> "water", is_completed |-> 1]

TreeRecord(number, name, species_name, date_acquired, updates_data, reminders_data) ==
    [tree_number |-> number, tree_name |-> name, species |-> species_name,
     date_acquired |-> date_acquired, origin_date |-> Iso(1),
     current_girth |-> 1, notes |-> "", is_archived |-> 1,
     updates |-> updates_data, photos |-> <<>>, reminders |-> reminders_data]

Image(folder, stem, ext) == [folder |-> folder, stem |-> stem, ext |-> ext]

FirstRecord ==
    TreeRecord("BON-001", "Tree1", "Maple", Iso(2), <<UpdateRecord(Iso(1))>>,
               <<ReminderRecord(Iso(2))>>)

HandMadeArchives ==
    { \* two trees, an image of the first and a folder of no tree
      ZipFile(TRUE, "ok",
              <<FirstRecord, TreeRecord("BON-002", "Tree2", "Pine", Iso(1), <<>>, <<>>)>>,
              {Image("BON-001", strftime_Ymd(Midnight(1)), ".jpg"),
               Image("BON-999", strftime_Ymd(Midnight(1)), ".jpg")}),
      \* not a zip file
      ZipFile(FALSE, "missing", <<>>, {}),
      \* no trees_data.json
      ZipFile(TRUE, "missing", <<>>, {Image("BON-001", strftime_Ymd(Midnight(1)), ".jpg")}),
      \* trees_data.json is no JSON
      ZipFile(TRUE, "corrupt", <<>>, {}),
      \* the second record's date_acquired is no date
      ZipFile(TRUE, "ok",
              <<FirstRecord, TreeRecord("BON-002", "Tree2", "Oak", NotADate, <<>>, <<>>)>>,
              {}),
      \* the second record repeats the first's tree_number
      ZipFile(TRUE, "ok",
              <<FirstRecord, TreeRecord("BON-001", "Tree2", "Pine", Iso(1), <<>>, <<>>)>>,
              {}),
      \* the second record's second update has no date
      ZipFile(TRUE, "ok",
              <<FirstRecord,
                TreeRecord("BON-002", "Tree2", "Pine", Iso(1),
                           <<UpdateRecord(Iso(1)), UpdateRecord(NotADate)>>, <<>>)>>,
              {}),
      \* an image whose name holds no date
      ZipFile(TRUE, "ok", <<FirstRecord>>,
              {Image("BON-001", Undatable, ".jpg"),
               Image("BON-001", strftime_Ymd(Midnight(2)), ".png")}) }

----------------------------------------------------------------------------
(* Specifications *)

Init ==
    /\ species = {}
    /\ trees = {}
    /\ updates = {}
    /\ photos = {}
    /\ reminders = {}
    /\ files = {}
    /\ exported = NoArchive
    /\ backup = NoArchive
    /\ restore_state = "upload"
    /\ success = "none"
    /\ assigned = {}
    /\ session = NewSession({})
    /\ confirmed = {}
    /\ outbox = [id \in 1..MaxId |-> 0]
    /\ backup_db = NoBackup

\* Trees are created, archived and restored; nothing is deleted.
NextCreate ==
    \/ \E n \in TreeNames, s \in SpeciesNames :
           AddTree(n, s, 0, 1, 1, "", NoFile, Midnight(1))
    \/ \E t \in trees : AddToGraveyard(t, "", Midnight(1))
    \/ \E t \in trees : RestoreTree(t)

SpecCreate == Init /\ [][NextCreate]_vars

\* Trees are created, archived, restored and permanently deleted.
NextNumbers ==
    \/ \E n \in TreeNames, s \in SpeciesNames :
           AddTree(n, s, 0, 1, 1, "", NoFile, Midnight(1))
    \/ \E t \in trees : AddToGraveyard(t, "", Midnight(1))
    \/ \E t \in trees : RestoreTree(t)
    \/ \E t \in trees : DeleteForever(t)

SpecNumbers == Init /\ [][NextNumbers]_vars

\* Photos are uploaded, starred, deleted and restored from backups.
NextStar ==
    \/ \E n \in TreeNames, up \in {NoFile, ".jpg"} :
           AddTree(n, "Pine", 0, 1, 1, "", up, Midnight(1))
    \/ \E t \in trees, n \in 0..2 :
           \E fs \in [1..n -> Uploads({Midnight(2)}, {Midnight(1)})] :
               SaveUpdate(t, 0, 1, "", fs, FALSE, None, "")
    \/ \E p \in photos : ToggleStar(p)
    \/ \E p \in photos : DeletePhoto(p)
    \/ \E a \in HandMadeArchives : UploadBackup(a)
    \/ \E l \in Listings(backup) : RestoreData(l)

SpecStar == Init /\ [][NextStar]_vars

\* A collection is built and backup files of any kind are restored over it.
NextImport ==
    \/ \E n \in TreeNames, up \in {NoFile, ".jpg"} :
           AddTree(n, "Pine", 0, 1, 1, "", up, Midnight(1))
    \/ \E t \in trees, sr \in BOOLEAN :
           SaveUpdate(t, 0, 1, "", <<>>, sr, 1, "water")
    \/ \E a \in HandMadeArchives : UploadBackup(a)
    \/ \E l \in Listings(backup) : RestoreData(l)
    \/ CancelRestore
    \/ TempFileRemoved

SpecImport == Init /\ [][NextImport]_vars

\* Trees with photos, updates and reminders are archived and permanently
\* deleted.  The clock of save_uploaded_image has a resolution of one second:
\* two files saved within the same second get the same name.
NextDelete ==
    \/ \E n \in TreeNames, up \in {NoFile, ".jpg"}, now \in {Midnight(1), [date |-> 1, tod |-> MaxTod]} :
           AddTree(n, "Pine", 0, 1, 1, "", up, now)
    \/ \E t \in trees, sr \in BOOLEAN :
           SaveUpdate(t, 1, 1, "wired", <<>>, sr, 1, "water")
    \/ \E t \in trees : AddToGraveyard(t, "", Midnight(1))
    \/ \E t \in trees : DeleteForever(t)

SpecDelete == Init /\ [][NextDelete]_vars

\* What is typed into a species name field: nothing, or a name.
SpeciesInputs == {"", "Pine"}

\* The backup file with nothing wrong in it: its species are Maple and Pine.
GoodArchives == {a \in HandMadeArchives : a.json_state = "ok" /\ a.images # {} /\ Len(a.json) = 2}

\* Species are added, renamed and deleted beside trees that are created,
\* edited, deleted and restored from backups.
NextSpecies ==
    \/ \E n \in TreeNames, sel \in species_options(species), new \in SpeciesInputs :
           /\ NextId(species) <= MaxId
           /\ AddTreeForm(n, sel, new, 0, 1, 1, "", NoFile, Midnight(1))
    \/ \E t \in trees, n \in TreeNames, sel \in species_options(species), new \in SpeciesInputs :
           /\ NextId(species) <= MaxId
           /\ EditTree(t, n, sel, new, 1, 1, "")
    \/ \E name \in SpeciesInputs, has_notes \in BOOLEAN :
           /\ NextId(species) <= MaxId
           /\ AddSpecies(name, has_notes)
    \/ \E sp \in species, name \in SpeciesInputs, has_notes \in BOOLEAN :
           EditSpecies(sp, name, has_notes)
    \/ \E sp \in species : DeleteSpecies(sp)
    \/ \E t \in trees : AddToGraveyard(t, "", Midnight(1))
    \/ \E t \in trees : DeleteForever(t)
    \/ \E a \in GoodArchives : UploadBackup(a)
    \/ \E l \in Listings(backup) :
           /\ NextId(species) + Len(backup.json) <= MaxId + 1
           /\ RestoreData(l)

SpecSpecies == Init /\ [][NextSpecies]_vars

\* Photos are uploaded and deleted, then the collection is exported.  Two
\* files saved within the same second get the same name; photos taken on
\* the same day have the same date.
NextExport ==
    \/ \E n \in TreeNames, up \in {NoFile, ".jpg"} :
           /\ exported = NoArchive
           /\ AddTree(n, "Pine", 0, 1, 1, "", up, Midnight(1))
    \/ \E t \in trees, n \in 0..2 :
           \E fs \in [1..n -> Uploads({Midnight(1), [date |-> 1, tod |-> MaxTod]}, {Midnight(1)})] :
               /\ exported = NoArchive
               /\ SaveUpdate(t, 0, 1, "wired", fs, FALSE, None, "")
    \/ \E p \in photos : exported = NoArchive /\ DeletePhoto(p)
    \/ ExportData

SpecExport == Init /\ [][NextExport]_vars

\* Updates are saved with any field filled in or left empty, and edited.
NextUpdates ==
    \/ \E n \in TreeNames : AddTree(n, "Pine", 0, 1, 1, "", NoFile, Midnight(1))
    \/ \E t \in trees, g \in Girths, w \in Texts, n \in 0..1 :
           \E fs \in [1..n -> Uploads({Midnight(1)}, {Midnight(1)})] :
               \E sr \in BOOLEAN, rd \in {None, 1}, rm \in {"", "water"} :
                   SaveUpdate(t, g, 1, w, fs, sr, rd, rm)
    \/ \E u \in updates, g \in Girths : EditUpdate(u, MaxDay, g, "wired")

SpecUpdates == Init /\ [][NextUpdates]_vars

\* Updates with photos and reminders are saved, and the storage may fail
\* while one is saved.
NextSave ==
    \/ \E n \in TreeNames : AddTree(n, "Pine", 0, 1, 1, "", NoFile, Midnight(1))
    \/ \E t \in trees, n \in 0..2, sr \in BOOLEAN :
           \E fs \in [1..n -> Uploads({Midnight(1)}, {Midnight(1)})] :
               SaveUpdate(t, 1, 1, "wired", fs, sr, 1, "water")
    \/ \E t \in trees, n \in 0..2, opened \in BOOLEAN :
           \E fs \in [1..n -> Uploads({Midnight(1)}, {Midnight(1)})] :
               \E failing \in 1..n + 1 :
                   SaveUpdateFails(t, 1, 1, "wired", fs, failing, opened)

SpecSave == Init /\ [][NextSave]_vars

\* Trees are created with any dates of the date inputs, and deleted.
NextAge ==
    \/ \E n \in TreeNames, da \in Days, od \in Days :
           AddTree(n, "Pine", 0, da, od, "", NoFile, Midnight(1))
    \/ \E t \in trees : AddToGraveyard(t, "", Midnight(1))
    \/ \E t \in trees : DeleteForever(t)

SpecAge == Init /\ [][NextAge]_vars

\* Collections with active and archived trees, with pending and completed
\* reminders, and the empty collection are exported.
NextReport ==
    \/ \E n \in TreeNames :
           /\ exported = NoArchive
           /\ AddTree(n, "Pine", 0, 1, 1, "", NoFile, Midnight(1))
    \/ \E t \in trees, sr \in BOOLEAN :
           /\ exported = NoArchive
           /\ SaveUpdate(t, 1, 1, "wired", <<>>, sr, 1, "water")
    \/ \E t \in trees : exported = NoArchive /\ AddToGraveyard(t, "", Midnight(1))
    \/ \E a \in GoodArchives : exported = NoArchive /\ UploadBackup(a)
    \/ \E l \in Listings(backup) : exported = NoArchive /\ RestoreData(l)
    \/ ExportData

SpecReport == Init /\ [][NextReport]_vars

\* Trees and their rows are created and deleted, and backup files of any
\* kind are restored, the restore stopping at any of its steps.
NextIntegrity ==
    \/ \E n \in TreeNames :
           /\ backup = NoArchive
           /\ AddTree(n, "Pine", 0, 1, 1, "", NoFile, Midnight(1))
    \/ \E t \in trees, sr \in BOOLEAN :
           /\ backup = NoArchive
           /\ SaveUpdate(t, 1, 1, "wired", <<>>, sr, 1, "water")
    \/ \E t \in trees : backup = NoArchive /\ AddToGraveyard(t, "", Midnight(1))
    \/ \E t \in trees : backup = NoArchive /\ DeleteForever(t)
    \/ \E a \in HandMadeArchives : a.json_state = "ok" /\ UploadBackup(a)
    \/ \E l \in Listings(backup) : RestoreData(l)
    \/ CancelRestore

SpecIntegrity == Init /\ [][NextIntegrity]_vars

\* The restore of the settings page, with and without a file, with the box
\* ticked and unticked, confirmed and cancelled.
NextRestore ==
    \/ \E n \in TreeNames, up \in {NoFile, ".jpg"} :
           AddTree(n, "Pine", 0, 1, 1, "", up, Midnight(1))
    \/ \E a \in HandMadeArchives \cup {NoArchive}, confirm_checkbox \in BOOLEAN :
           RestoreFromBackup(a, confirm_checkbox)
    \/ \E l \in Listings(backup) : RestoreData(l)
    \/ CancelRestore
    \/ TempFileRemoved

SpecRestore == Init /\ [][NextRestore]_vars

\* Trees are archived and deleted for ever on the graveyard page.
NextGraveyard ==
    \/ \E n \in TreeNames : AddTree(n, "Pine", 0, 1, 1, "", NoFile, Midnight(1))
    \/ \E t \in trees : AddToGraveyard(t, "", Midnight(1))
    \/ \E page_name \in SidebarPages : SidebarButton(page_name)
    \/ BackToCollection
    \/ \E t \in trees : PressDeleteForever(t)
    \/ \E t \in trees : PressYesDelete(t)
    \/ GraveyardRun

SpecGraveyard == Init /\ [][NextGraveyard]_vars

\* Reminders are set, and the application is opened on any day.
NextPopup ==
    \/ \E n \in TreeNames : AddTree(n, "Pine", 0, 1, 1, "", NoFile, Midnight(1))
    \/ \E t \in trees, sr \in BOOLEAN, rd \in Days :
           SaveUpdate(t, 1, 1, "wired", <<>>, sr, rd, "water")
    \/ \E today \in Days : OpenSession(today)
    \/ \E ticked \in SUBSET session.popup : MarkSelectedAsComplete(ticked)

SpecPopup == Init /\ [][NextPopup]_vars

\* A backup file of one archived tree, without images.
NavArchive ==
    ZipFile(TRUE, "ok", <<TreeRecord("BON-001", "Tree1", "Pine", Iso(1), <<>>, <<>>)>>, {})

\* The pages are visited and, on each page, its forms are used: trees and
\* species are added, edited, archived, restored and deleted, and a backup
\* is restored from the settings page.
NextNav ==
    \/ \E page_name \in SidebarPages : SidebarButton(page_name)
    \/ BackToCollection
    \/ AddNewTreeButton
    \/ \E t \in trees, page_name \in TreePages : CardButton(t, page_name)
    \/ \E n \in TreeNames :
           /\ session.page = "Add New Tree"
           /\ AddTree(n, "Pine", 0, 1, 1, "", NoFile, Midnight(1))
    \/ \E t \in trees :
           /\ session.page = "Update Tree" /\ session.selected_tree = t.id
           /\ AddToGraveyard(t, "", Midnight(1))
    \/ \E t \in trees :
           /\ session.page = "Edit Tree" /\ session.selected_tree = t.id
           /\ EditTree(t, t.tree_name, "Pine", "", 1, 1, "")
    \/ \E t \in trees : session.page = "Graveyard" /\ RestoreTree(t)
    \/ \E t \in trees : session.page = "Graveyard" /\ DeleteForever(t)
    \/ \E s \in species, edit \in BOOLEAN : SpeciesButton(s, edit)
    \/ EditNotesButton
    \/ BackToSpeciesNotes
    \/ /\ session.page = "Species Notes"
       /\ NextId(species) <= MaxId
       /\ AddSpecies("Elm", TRUE)
    \/ \E s \in species :
           /\ session.page = "Edit Species" /\ session.selected_species = s.id
           /\ EditSpecies(s, s.name, TRUE)
    \/ \E s \in species : session.page = "Species Notes" /\ DeleteSpecies(s)
    \/ session.page = "Settings" /\ UploadBackup(NavArchive)
    \/ \E l \in Listings(backup) : session.page = "Settings" /\ RestoreData(l)
    \/ session.page = "Settings" /\ CancelRestore

SpecNav == Init /\ [][NextNav]_vars

\* Reminders are set and the scheduler checks them on any day.
NextNotify ==
    \/ \E n \in TreeNames : AddTree(n, "Pine", 0, 1, 1, "", NoFile, Midnight(1))
    \/ \E t \in trees, rd \in Days :
           SaveUpdate(t, 1, 1, "wired", <<>>, TRUE, rd, "water")
    \/ \E today \in Days, imported \in BOOLEAN, failing \in 1..MaxRows + 1 :
           check_reminders(today, imported, failing)

SpecNotify == Init /\ [][NextNotify]_vars

\* A collection is built and migrated, the migration failing at any step.
NextMigrate ==
    \/ \E n \in TreeNames, up \in {NoFile, ".jpg"} :
           AddTree(n, "Pine", 0, 1, 1, "", up, Midnight(1))
    \/ \E t \in trees, sr \in BOOLEAN :
           SaveUpdate(t, 1, 1, "wired", <<>>, sr, 1, "water")
    \/ \E p \in photos : ToggleStar(p)
    \/ NextId(species) <= MaxId /\ AddSpecies("Elm", TRUE)
    \/ \E failing \in MigrationSteps \cup {"none"} : MigrateDatabase(failing)

SpecMigrate == Init /\ [][NextMigrate]_vars

\* The collection is edited, then exported and restored from the export.
Edit ==
    \/ \E n \in TreeNames :
           AddTree(n, "Elm", 1, 2, 1, "wired", ".jpg", [date |-> 2, tod |-> 1])
    \/ \E t \in trees : SaveUpdate(t, 0, 1, "wired", <<>>, TRUE, 2, "water")
    \/ \E t \in trees : AddToGraveyard(t, "", [date |-> 1, tod |-> 1])
    \/ \E p \in photos : ToggleStar(p)

Next ==
    \/ exported = NoArchive /\ Edit
    \/ ExportData
    \/ UploadBackup(exported)
    \/ \E l \in Listings(backup) : RestoreData(l)
    \/ CancelRestore

Spec == Init /\ [][Next]_vars

----------------------------------------------------------------------------
(* What a collection and an archive hold, without rowids and file paths *)

TreeView(d) ==
    {[tree_number |-> t.tree_number, tree_name |-> t.tree_name,
      species |-> SpeciesName(d, t), date_acquired |-> t.date_acquired,
      origin_date |-> t.origin_date, current_girth |-> t.current_girth,
      notes |-> t.notes, is_archived |-> t.is_archived] : t \in d.trees}

\* The tree_number of the tree a child row belongs to.
Owner(d, row) ==
    IF \E t \in d.trees : t.id = row.tree_id
    THEN (CHOOSE t \in d.trees : t.id = row.tree_id).tree_number
    ELSE "no tree"

UpdateView(d) ==
    {<<Owner(d, u), u.update_date, u.girth, u.work_performed>> : u \in d.updates}

ReminderView(d) ==
    {<<Owner(d, r), r.reminder_date, r.message, r.is_completed>> : r \in d.reminders}

PhotoView(d) ==
    {<<Owner(d, p), p.photo_date, p.is_starred, p.description>> : p \in d.photos}

\* The same of the first n records of a parsed trees_data document.
RecordTreeView(json, n) ==
    {[tree_number |-> json[i].tree_number, tree_name |-> json[i].tree_name,
      species |-> json[i].species,
      date_acquired |-> fromisoformat(json[i].date_acquired),
      origin_date |-> fromisoformat(json[i].origin_date),
      current_girth |-> json[i].current_girth,
      notes |-> json[i].notes, is_archived |-> json[i].is_archived] : i \in 1..n}

RecordUpdates(rec) ==
    {<<rec.tree_number, fromisoformat(rec.updates[j].date), rec.updates[j].girth,
       rec.updates[j].work_performed>> : j \in 1..Len(rec.updates)}

RecordReminders(rec) ==
    {<<rec.tree_number, fromisoformat(rec.reminders[j].date),
       rec.reminders[j].message, rec.reminders[j].is_completed>> :
         j \in 1..Len(rec.reminders)}

RecordUpdateView(json, n) == UNION {RecordUpdates(json[i]) : i \in 1..n}

RecordReminderView(json, n) == UNION {RecordReminders(json[i]) : i \in 1..n}

RECURSIVE Sum(_, _)
Sum(f, n) == IF n = 0 THEN 0 ELSE f[n] + Sum(f, n - 1)

UpdateCount(json, n) == Sum([i \in 1..n |-> Len(json[i].updates)], n)

ReminderCount(json, n) == Sum([i \in 1..n |-> Len(json[i].reminders)], n)

\* The images of an archive that lie in the folder of one of its trees.
OwnedImages(a) ==
    {e \in a.images : \E i \in 1..Len(a.json) : a.json[i].tree_number = e.folder}

----------------------------------------------------------------------------
(* C1: export_bonsai_data followed by import_bonsai_data gives back every *)
(* tree with the same scalar fields (number, name, species name, both     *)
(* dates, girth, notes, archived flag) and the same updates (date, girth, *)
(* work) and reminders (date, message, completed flag), from every        *)
(* collection state.                                                      *)
RoundTripKeepsTreesUpdatesReminders ==
    \A l \in Listings(export_bonsai_data(DB)) :
        LET r == import_bonsai_data(DB, export_bonsai_data(DB), l)
        IN /\ TreeView(r.db) = TreeView(DB)
           /\ Cardinality(r.db.trees) = Cardinality(trees)
           /\ UpdateView(r.db) = UpdateView(DB)
           /\ Cardinality(r.db.updates) = Cardinality(updates)
           /\ ReminderView(r.db) = ReminderView(DB)
           /\ Cardinality(r.db.reminders) = Cardinality(reminders)

\* A collection restored from its own export: two trees, one archived, two
\* updates of which one has no girth and a time of day, and a reminder.
RestoredFromOwnExport ==
    /\ success = "True"
    /\ Len(exported.json) = 2
    /\ TreeView(DB) = RecordTreeView(exported.json, 2)
    /\ UpdateView(DB) = RecordUpdateView(exported.json, 2)
    /\ \E t \in trees : t.is_archived = 1
    /\ \E u \in updates : u.girth = None /\ u.update_date.tod # 0
    /\ \E u \in updates : u.girth # None
    /\ reminders # {}

(* C2: export followed by import gives back every photo of every tree     *)
(* with equal photo_date, is_starred and description.                     *)
RoundTripKeepsPhotos ==
    \A l \in Listings(export_bonsai_data(DB)) :
        LET r == import_bonsai_data(DB, export_bonsai_data(DB), l)
        IN /\ PhotoView(r.db) = PhotoView(DB)
           /\ Cardinality(r.db.photos) = Cardinality(photos)

(* C3: an import that returns True leaves exactly the rows restored from  *)
(* the archive in the tables trees, tree_updates, reminders and photos:   *)
(* nothing that was there before is left.                                 *)
ImportReplacesCollection ==
    [][\A l \in Listings(backup) :
          (RestoreData(l) /\ success' = "True") =>
              LET n == Len(backup.json)
              IN /\ TreeView(DB') = RecordTreeView(backup.json, n)
                 /\ Cardinality(trees') = n
                 /\ UpdateView(DB') = RecordUpdateView(backup.json, n)
                 /\ Cardinality(updates') = UpdateCount(backup.json, n)
                 /\ ReminderView(DB') = RecordReminderView(backup.json, n)
                 /\ Cardinality(reminders') = ReminderCount(backup.json, n)
                 /\ PhotoView(DB') =
                        {<<e.folder, strptime_Ymd(e.stem), 0, "Imported photo">> :
                             e \in OwnedImages(backup)}
                 /\ Cardinality(photos') = Cardinality(OwnedImages(backup))]_vars

\* A hand-made archive restored over a collection: its two trees, its
\* update, its reminder and its one owned image are the collection.
HandMadeArchiveRestored ==
    /\ success = "True"
    /\ {t.tree_name : t \in trees} = {"Tree1", "Tree2"}
    /\ \E s \in species : s.name = "Maple"
    /\ Cardinality(updates) = 1
    /\ Cardinality(reminders) = 1
    /\ Cardinality(photos) = 1
    /\ \E f \in files : f.dir = "data/images"

(* C4: import_bonsai_data never raises to its caller: whatever the        *)
(* archive (file gone, no zip, no or unreadable trees_data.json, records  *)
(* with bad dates or repeated numbers, image names without a date) it     *)
(* returns True or False, and False whenever a step raised.               *)
ImportNeverRaises ==
    [][\A l \in Listings(backup) :
          RestoreData(l) =>
              /\ success' \in {"True", "False"}
              /\ import_run(DB, backup, l).exc # "none" => success' = "False"]_vars

\* An import failed on an archive whose document was read.
ImportFailedOnRecords ==
    /\ success = "False"
    /\ restore_state = "confirm"
    /\ backup.json_state = "ok"

(* C5: when the archive has no trees_data.json, or one that does not      *)
(* parse, import returns False and no Species, Tree, TreeUpdate, Photo or *)
(* Reminder row is deleted or created.                                    *)
ImportWithoutDataChangesNothing ==
    [][\A l \in Listings(backup) :
          (RestoreData(l) /\ backup.zip_ok /\ backup.json_state \in {"missing", "corrupt"})
              => (success' = "False" /\ UNCHANGED dbVars)]_vars

\* An import of an archive without the document failed, over a collection
\* that holds trees and updates.
ImportWithoutDataFailed ==
    /\ success = "False"
    /\ restore_state = "confirm"
    /\ backup.zip_ok
    /\ backup.json_state = "missing"
    /\ trees # {}
    /\ updates # {}
    /\ photos # {}

\* The archive gets import past its deletion step.
ReachesDeletion(a) == a.kind = "zip" /\ a.zip_ok /\ a.json_state = "ok"

\* The rows of tree number in d are those of record rec.
FullyRestored(d, rec) ==
    /\ {v \in UpdateView(d) : v[1] = rec.tree_number} = RecordUpdates(rec)
    /\ {v \in ReminderView(d) : v[1] = rec.tree_number} = RecordReminders(rec)

Childless(d, number) ==
    /\ {v \in UpdateView(d) : v[1] = number} = {}
    /\ {v \in ReminderView(d) : v[1] = number} = {}

(* C6 as claimed: an import that fails after its deletion was committed   *)
(* returns False and leaves none of the trees of before, only tree        *)
(* records that were fully restored before the failure.                   *)
FailedImportKeepsOnlyFullyRestored ==
    [][\A l \in Listings(backup) :
          (RestoreData(l) /\ ReachesDeletion(backup) /\ success' # "True") =>
              /\ success' = "False"
              /\ \A v \in TreeView(DB') :
                     /\ v \in RecordTreeView(backup.json, Len(backup.json))
                     /\ \E i \in 1..Len(backup.json) :
                            /\ v.tree_number = backup.json[i].tree_number
                            /\ FullyRestored(DB', backup.json[i])]_vars

(* C6 as amended: an import that fails after its deletion was committed   *)
(* returns False and leaves none of the rows of before and no photo row:  *)
(* the trees are those of the first n records of the archive, for some n, *)
(* each with all its updates and reminders, except that the n-th tree may *)
(* be there without any of its updates and reminders.                     *)
FailedImportKeepsRestoredPrefix ==
    [][\A l \in Listings(backup) :
          (RestoreData(l) /\ ReachesDeletion(backup) /\ success' # "True") =>
              /\ success' = "False"
              /\ photos' = {}
              /\ \E n \in 0..Len(backup.json) :
                     /\ TreeView(DB') = RecordTreeView(backup.json, n)
                     /\ Cardinality(trees') = n
                     /\ \A i \in 1..(n - 1) : FullyRestored(DB', backup.json[i])
                     /\ n > 0 => \/ FullyRestored(DB', backup.json[n])
                                 \/ Childless(DB', backup.json[n].tree_number)
                     /\ \A v \in UpdateView(DB') \cup ReminderView(DB') :
                            \E i \in 1..n : v[1] = backup.json[i].tree_number]_vars

\* A failed import left the second tree of the archive without its updates,
\* where the collection of before had other trees.
FailedImportLeftChildlessTree ==
    /\ success = "False"
    /\ ReachesDeletion(backup)
    /\ Len(backup.json) = 2
    /\ Len(backup.json[2].updates) = 2
    /\ Cardinality(trees) = 2
    /\ Cardinality(updates) = 1

----------------------------------------------------------------------------
(* C7: from an empty collection and with no deletions, the k-th created   *)
(* tree gets the number "BON-" followed by k zero-padded to three digits, *)
(* so the numbers given are BON-001, BON-002, ... with no repeats.  With  *)
(* nothing deleted the k-th created tree is the row with rowid k.         *)
TreeNumbersSequential ==
    /\ {t.id : t \in trees} = 1..Cardinality(trees)
    /\ \A t \in trees : t.tree_number = "BON-" \o Pad3(t.id)
    /\ \A t, u \in trees : t.id # u.id => t.tree_number # u.tree_number
    /\ assigned = {"BON-" \o Pad3(k) : k \in 1..Cardinality(trees)}

AllTreesCreated ==
    /\ Cardinality(trees) = MaxTrees
    /\ "BON-" \o Pad3(MaxTrees) \in assigned

(* C8 as claimed: a tree number is never reused: over creations and       *)
(* permanent deletions, the number "Add Tree" gives to a new tree was     *)
(* never given to a tree before, deleted trees included.                  *)
TreeNumberNeverReused ==
    [][\A t \in trees' :
          t.id \notin {u.id : u \in trees} => t.tree_number \notin assigned]_vars

(* C9 as claimed: in every reachable collection state the value of        *)
(* generate_tree_number differs from the tree_number of every stored      *)
(* tree, so that "Add Tree" with a fresh name passes the uniqueness       *)
(* constraint on tree_number.                                             *)
GeneratedTreeNumberUnused ==
    \A t \in trees : t.tree_number # generate_tree_number(trees)

----------------------------------------------------------------------------
(* C10: in every state reached by photo uploads, star toggles, photo      *)
(* deletions and imports, each tree has at most one photo with            *)
(* is_starred = 1.                                                        *)
AtMostOneStarPerTree ==
    /\ \A p \in photos : p.is_starred \in {0, 1}
    /\ \A p, q \in photos :
          (p.tree_id = q.tree_id /\ p.is_starred = 1 /\ q.is_starred = 1) => p.id = q.id

\* A tree with two photos, the one with the higher rowid starred and the
\* other not: the star was toggled on the second photo of the tree.
StarOnSecondPhoto ==
    \E p, q \in photos :
        /\ p.tree_id = q.tree_id
        /\ p.id < q.id
        /\ p.is_starred = 0
        /\ q.is_starred = 1

----------------------------------------------------------------------------
\* The rows of table rows that belong to tree t.
RowsOf(rows, t) == {r \in rows : r.tree_id = t.id}

\* The image files of the photos of tree t.
PhotoFiles(photoRows, t) == {p.file_path : p \in RowsOf(photoRows, t)}

(* C11 as claimed: deleting a tree forever removes its updates, photos    *)
(* and reminders and the image files of its photos, and leaves every      *)
(* other tree and every other tree's updates, photos, photo files and     *)
(* reminders as they were.                                                *)
CascadeDeleteKeepsOthers ==
    [][\A t \in trees :
          DeleteForever(t) =>
              /\ RowsOf(updates', t) = {} /\ RowsOf(photos', t) = {}
              /\ RowsOf(reminders', t) = {}
              /\ PhotoFiles(photos, t) \cap files' = {}
              /\ trees' = trees \ {t}
              /\ \A o \in trees \ {t} :
                     /\ RowsOf(updates', o) = RowsOf(updates, o)
                     /\ RowsOf(photos', o) = RowsOf(photos, o)
                     /\ RowsOf(reminders', o) = RowsOf(reminders, o)
                     /\ PhotoFiles(photos, o) \cap files' =
                            PhotoFiles(photos, o) \cap files]_vars

----------------------------------------------------------------------------
(* C12: a species is deleted only when no tree has it, and neither the    *)
(* deletion of a tree nor an import removes a species: in every reachable *)
(* state the species_id of every tree is the id of a species row.         *)
EveryTreeHasItsSpecies ==
    \A t \in trees : \E sp \in species : sp.id = t.species_id

\* A species was deleted beside stored trees: rowid 1, the first species
\* ever stored, is gone, and the trees have the species that are left.
SpeciesDeletedBesideTrees ==
    /\ trees # {}
    /\ species # {}
    /\ \A sp \in species : sp.id # 1

(* C13: get_or_create_species and the species resolution of the import    *)
(* give back the species of the name when there is one and create exactly *)
(* one otherwise, and after any tree creations, tree edits, species       *)
(* additions, renames and imports no two species rows have the same name. *)
SpeciesNamesUnique ==
    /\ \A a, b \in species : a.name = b.name => a = b
    /\ \A name \in SpeciesInputs \cup {"Maple"} :
          LET sp == get_or_create_species(species, name)
              im == import_species(species, name)
          IN /\ SpeciesNamed(species, name) # {} => sp = species /\ im = species
             /\ SpeciesNamed(species, name) = {} =>
                    /\ Cardinality(sp) = Cardinality(species) + 1
                    /\ Cardinality(im) = Cardinality(species) + 1
             /\ Cardinality(SpeciesNamed(sp, name)) = 1
             /\ Cardinality(SpeciesNamed(im, name)) = 1
             /\ get_or_create_species(sp, name) = sp
             /\ import_species(im, name) = im

\* Two trees have one species, which get_or_create_species found for the
\* second of them, beside another species.
TwoTreesShareSpecies ==
    /\ \E t, u \in trees : t.id # u.id /\ t.species_id = u.species_id
    /\ Cardinality(species) >= 2

(* C14 as claimed: every species row has a non-empty name in every        *)
(* reachable state.                                                       *)
SpeciesNamesNonEmpty ==
    \A sp \in species : sp.name # ""

----------------------------------------------------------------------------
\* The tree of a tree number.
TreeNumbered(number) == CHOOSE t \in trees : t.tree_number = number

\* The photos of tree t whose file is in storage.
PhotosWithFile(t) == {p \in RowsOf(photos, t) : p.file_path \in files}

(* C15: export_bonsai_data changes no row of the collection and no stored *)
(* photo file, and when it returns the export directory it made is gone   *)
(* and the zip archive is what it left in the export location.            *)
ExportLeavesCollection ==
    [][ExportData =>
          /\ UNCHANGED <<dbVars, files>>
          /\ \A now \in DateTimes :
                 \A location \in SUBSET {ExportPath(now), ZipPath(Midnight(1))} :
                     /\ ExportPath(now) \notin export_location(location, now)
                     /\ export_location(location, now) \ location \subseteq {ZipPath(now)}
                     /\ ZipPath(now) \in export_location(location, now)]_vars

\* A collection with trees, photos and photo files was exported.
CollectionExported ==
    /\ exported = export_bonsai_data(DB)
    /\ Len(exported.json) = MaxTrees
    /\ photos # {}
    /\ exported.images # {}

(* C16: a photo whose file is missing from storage does not stop the      *)
(* export: the archive is written, its images are those of the photos     *)
(* whose file exists, and the data document lists every photo, the ones   *)
(* without a file too.                                                    *)
MissingFileNotFatal ==
    LET a == export_bonsai_data(DB)
    IN /\ a.kind = "zip" /\ a.zip_ok /\ a.json_state = "ok"
       /\ {a.json[i].tree_number : i \in 1..Len(a.json)} = {t.tree_number : t \in trees}
       /\ \A i \in 1..Len(a.json) :
              LET t == TreeNumbered(a.json[i].tree_number)
              IN /\ Len(a.json[i].photos) = Cardinality(RowsOf(photos, t))
                 /\ \A p \in RowsOf(photos, t) :
                        \E j \in 1..Len(a.json[i].photos) : a.json[i].photos[j] = PhotoData(p)
       /\ \A e \in a.images :
              \E p \in PhotosWithFile(TreeNumbered(e.folder)) :
                  e.stem = strftime_Ymd(p.photo_date) /\ e.ext = p.file_path.ext

\* The export of a collection in which a photo has lost its file while
\* another photo has its file.
ExportedWithMissingFile ==
    /\ exported = export_bonsai_data(DB)
    /\ \E p \in photos : p.file_path \notin files
    /\ \E p \in photos : p.file_path \in files

(* C18 as claimed: for every tree the archive holds as many files under   *)
(* images/<tree_number>/ as the tree has photos whose file exists, also   *)
(* when photos of the tree have the same photo date.                      *)
OneImagePerPhoto ==
    \A t \in trees :
        Cardinality({e \in export_bonsai_data(DB).images : e.folder = t.tree_number})
            = Cardinality(PhotosWithFile(t))

----------------------------------------------------------------------------
\* An archive without the image folders that have the number of none of
\* its trees, and a listing without their files.
WithoutOrphans(a) == [a EXCEPT !.images = OwnedImages(a)]

ListingWithoutOrphans(a, listing) == SelectSeq(listing, LAMBDA e : e \in OwnedImages(a))

(* C17: an image folder in the archive whose name is the tree_number of   *)
(* none of the imported trees does not stop the import: it returns True,  *)
(* no photo row is made for a file of that folder, and the trees and the  *)
(* other folders are imported as they are without that folder.            *)
OrphanFolderIgnored ==
    [][\A l \in Listings(backup) :
          LET orphans == backup.images \ OwnedImages(backup)
              plain == import_bonsai_data(DB, WithoutOrphans(backup),
                                          ListingWithoutOrphans(backup, l))
          IN (RestoreData(l) /\ orphans # {} /\ plain.result = "True") =>
                 /\ success' = "True"
                 /\ \A ph \in photos' : \A e \in orphans : ph.file_path # ImportPath(e)
                 /\ \A e \in orphans : ImportPath(e) \in files' => ImportPath(e) \in files
                 /\ DB' = plain.db]_vars

\* Restored from the archive with the folder BON-999: both trees are there,
\* the image of BON-001 is a photo, and nothing was stored for BON-999.
OrphanFolderSkipped ==
    /\ success = "True"
    /\ {t.tree_number : t \in trees} = {"BON-001", "BON-002"}
    /\ \E ph \in photos : ph.file_path.dir = "bonsai_images/BON-001"
    /\ \A ph \in photos : ph.file_path.dir # "bonsai_images/BON-999"
    /\ \A f \in files : f.dir # "bonsai_images/BON-999"

----------------------------------------------------------------------------
\* The current_girth of the tree with rowid tree_id, after the step.
CurrentGirthAfter(tree_id) == (CHOOSE t \in trees' : t.id = tree_id).current_girth

(* C19 as claimed: saving an update, by "Save Update" or by the edit form *)
(* of the work history, writes the update's girth to current_girth of its *)
(* tree.                                                                  *)
SavedGirthIsCurrentGirth ==
    [][/\ \A t \in trees, g \in Girths, w \in Texts :
              (SaveUpdate(t, g, 1, w, <<>>, FALSE, None, "") /\ updates' # updates)
                  => CurrentGirthAfter(t.id) = g
       /\ \A u \in updates, g \in Girths :
              EditUpdate(u, MaxDay, g, "wired") => CurrentGirthAfter(u.tree_id) = g]_vars

(* C20 as claimed: "Save Update" with a required field missing (no work   *)
(* description, or a reminder asked for without its date or its message)  *)
(* is aborted with nothing written: no update, photo or reminder row and  *)
(* no change of current_girth.                                            *)
InvalidUpdateWritesNothing ==
    [][\A t \in trees, g \in Girths, w \in Texts, n \in 0..1 :
          \A fs \in [1..n -> Uploads({Midnight(1)}, {Midnight(1)})] :
              \A sr \in BOOLEAN, rd \in {None, 1}, rm \in {"", "water"} :
                  (/\ SaveUpdate(t, g, 1, w, fs, sr, rd, rm)
                   /\ (w = "" \/ (sr /\ (rd = None \/ rm = ""))))
                      => UNCHANGED <<trees, updates, photos, reminders, files>>]_vars

----------------------------------------------------------------------------
\* The files one "Save Update" may carry in the runs of SpecSave.
SaveFiles(n) == [1..n -> Uploads({Midnight(1)}, {Midnight(1)})]

\* Nothing of an update of tree t was committed by the step.
NothingSaved == UNCHANGED <<trees, updates, photos, reminders>>

\* Everything of an update of tree t was committed by the step: the update,
\* the girth, a photo per file and the reminder if one was asked for.
AllSaved(t, uploaded_files, set_reminder) ==
    /\ Cardinality(RowsOf(updates', t)) = Cardinality(RowsOf(updates, t)) + 1
    /\ \E o \in trees' : o.id = t.id /\ o.current_girth = 1
    /\ Cardinality(RowsOf(photos', t)) = Cardinality(RowsOf(photos, t)) + Len(uploaded_files)
    /\ Cardinality(RowsOf(reminders', t)) =
           Cardinality(RowsOf(reminders, t)) + (IF set_reminder THEN 1 ELSE 0)

(* C21: "Save Update" commits the new update, the new current_girth, the  *)
(* new photo rows and the reminder together or not at all: when the       *)
(* action fails in the middle no update is left without its photos or     *)
(* its reminder.                                                          *)
SaveUpdateAllOrNothing ==
    [][\A t \in trees, n \in 0..2 : \A fs \in SaveFiles(n) :
          /\ \A sr \in BOOLEAN :
                 SaveUpdate(t, 1, 1, "wired", fs, sr, 1, "water")
                     => AllSaved(t, fs, sr)
          /\ \A failing \in 1..n + 1, opened \in BOOLEAN :
                 SaveUpdateFails(t, 1, 1, "wired", fs, failing, opened)
                     => NothingSaved]_vars

\* A save stopped after a file was stored: the file is in storage, and no
\* row is there for it.
SaveStoppedMidway ==
    /\ trees # {}
    /\ updates = {}
    /\ photos = {}
    /\ Cardinality(files) = 1

----------------------------------------------------------------------------
\* An age that is a number and not negative.
NonNegative(age) == age.kind = "number" /\ age.num >= 0 /\ age.den > 0

\* The ages of dates that are not in the future are not negative.
PastDatesGiveNonNegativeAges ==
    \A t \in trees, now \in DateTimes :
        /\ Stamp(t.date_acquired) <= Stamp(now) => NonNegative(training_age(t, now))
        /\ Stamp(t.origin_date) <= Stamp(now) => NonNegative(true_age(t, now))

\* The ages of dates in the future are not numbers.
FutureDatesGiveNoNumber ==
    \A t \in trees, now \in DateTimes :
        /\ Stamp(t.date_acquired) > Stamp(now) => training_age(t, now).kind # "number"
        /\ Stamp(t.origin_date) > Stamp(now) => true_age(t, now).kind # "number"

(* C22 as claimed: whenever the ages of a tree are read, an age counted   *)
(* from a date that is not in the future is the whole number of elapsed   *)
(* days divided by 365.25 and is not negative, and an age counted from a  *)
(* date in the future is not reported as an ordinary number.              *)
AgesNonNegativeOrUndefined ==
    /\ PastDatesGiveNonNegativeAges
    /\ FutureDatesGiveNoNumber

----------------------------------------------------------------------------
\* The number of rows of a sheet that belong to the tree numbered number.
RowsOfNumber(sheet, number) ==
    Cardinality({i \in 1..Len(sheet) : sheet[i].tree_number = number})

\* The number of rows of a sheet of reminders with the status given that
\* belong to the tree numbered number.
RowsOfStatus(sheet, number, status) ==
    Cardinality({i \in 1..Len(sheet) :
                    sheet[i].tree_number = number /\ sheet[i].status = status})

(* C23: the Excel report of an export has one row of "Trees Overview" for *)
(* every tree, one row of "Work History" for every update and one row of  *)
(* "Reminders" for every reminder; the status of a tree is Archived if it *)
(* is archived and Active if not, the status of a reminder Completed if   *)
(* it is completed and Pending if not; a collection without trees,        *)
(* updates or reminders gives empty sheets and is exported all the same.  *)
ReportHasOneRowPerRecord ==
    [][ExportData =>
          LET x == exported'.xlsx
          IN /\ exported'.kind = "zip" /\ exported'.zip_ok
             /\ Len(x.overview) = Cardinality(trees)
             /\ Len(x.history) = Cardinality(updates)
             /\ Len(x.reminders) = Cardinality(reminders)
             /\ \A t \in trees :
                    /\ RowsOfNumber(x.overview, t.tree_number) = 1
                    /\ \A i \in 1..Len(x.overview) :
                           x.overview[i].tree_number = t.tree_number =>
                               x.overview[i].status =
                                   (IF t.is_archived = 1 THEN "Archived" ELSE "Active")
                    /\ RowsOfNumber(x.history, t.tree_number) =
                           Cardinality(RowsOf(updates, t))
                    /\ RowsOfStatus(x.reminders, t.tree_number, "Completed") =
                           Cardinality({r \in RowsOf(reminders, t) : r.is_completed = 1})
                    /\ RowsOfStatus(x.reminders, t.tree_number, "Pending") =
                           Cardinality({r \in RowsOf(reminders, t) : r.is_completed # 1})]_vars

\* An export whose report has an archived tree, a completed reminder and a
\* row of work history.
ReportOfArchivedAndCompleted ==
    /\ exported.kind = "zip"
    /\ \E i \in 1..Len(exported.xlsx.overview) :
           exported.xlsx.overview[i].status = "Archived"
    /\ \E i \in 1..Len(exported.xlsx.reminders) :
           exported.xlsx.reminders[i].status = "Completed"
    /\ exported.xlsx.history # <<>>

----------------------------------------------------------------------------
\* The rowids of the trees.
TreeIds == {t.id : t \in trees}

(* C24: in every committed state, after any user operations and any       *)
(* restores, one that failed partway too, every update, photo and         *)
(* reminder row has the tree_id of a tree row that exists.                *)
ChildRowsHaveTheirTree ==
    /\ \A u \in updates : u.tree_id \in TreeIds
    /\ \A p \in photos : p.tree_id \in TreeIds
    /\ \A r \in reminders : r.tree_id \in TreeIds

\* A restore failed after it had restored a tree with rows of its own.
FailedRestoreLeftRows ==
    /\ success = "False"
    /\ trees # {}
    /\ updates # {}
    /\ reminders # {}

----------------------------------------------------------------------------
(* C25: import_bonsai_data runs only in the restore state "confirm"; that *)
(* state is entered only from "upload", by "Restore from Backup" with a   *)
(* file uploaded and the box ticked; "Cancel" goes back to "upload",      *)
(* removes the temporary file and leaves the collection as it was; a      *)
(* successful import goes back to "upload".                               *)
RestoreFlowIsGuarded ==
    [][/\ \A l \in Listings(backup) : RestoreData(l) => restore_state = "confirm"
       /\ restore_state # "confirm" =>
              (success' = success /\ updates' = updates /\ reminders' = reminders)
       /\ (restore_state # "confirm" /\ restore_state' = "confirm") =>
              /\ restore_state = "upload"
              /\ backup'.kind = "zip"
              /\ RestoreFromBackup(backup', TRUE)
       /\ \A a \in HandMadeArchives \cup {NoArchive} :
              /\ RestoreFromBackup(a, FALSE) => restore_state' = restore_state
              /\ \A confirm_checkbox \in BOOLEAN :
                     RestoreFromBackup(NoArchive, confirm_checkbox)
                         => restore_state' = restore_state
       /\ CancelRestore =>
              /\ restore_state' = "upload"
              /\ backup' = NoArchive
              /\ UNCHANGED <<dbVars, files>>
       /\ \A l \in Listings(backup) :
              (RestoreData(l) /\ success' = "True") => restore_state' = "upload"]_vars

\* A confirmed restore has succeeded: the state is "upload" again with the
\* restored collection.
RestoreLeftConfirmState ==
    /\ restore_state = "upload"
    /\ backup = NoArchive
    /\ success = "True"
    /\ trees # {}

----------------------------------------------------------------------------
(* C26 as claimed: a tree is deleted for ever only after "Yes, Delete" was *)
(* pressed for that tree: the confirmation given for one tree never lets  *)
(* another tree be deleted, over any deletions of one session.            *)
DeletedOnlyWhenConfirmed ==
    [][\A t \in trees :
          (\A o \in trees' : o.id # t.id) => t.id \in confirmed]_vars

(* C27 as claimed: when the popup shows due reminders and the user ticks  *)
(* some of them and presses "Mark Selected as Complete", the ticked       *)
(* reminders become completed, reminders_checked becomes True and the     *)
(* reminders not ticked stay pending.                                     *)
TickedRemindersCompleted ==
    [][\A ticked \in SUBSET session.popup :
          MarkSelectedAsComplete(ticked) =>
              /\ \A r \in reminders :
                     LET after == CHOOSE q \in reminders' : q.id = r.id
                     IN after.is_completed = (IF r.id \in ticked THEN 1 ELSE r.is_completed)
              /\ session'.reminders_checked = "True"]_vars

----------------------------------------------------------------------------
(* C28: whenever the page is one of "Update Tree", "Tree Gallery", "Edit  *)
(* Tree" and "Work History", selected_tree is set and is the id of a tree *)
(* that exists, and whenever the page is "Edit Species", selected_species *)
(* is the id of a species that exists: after any navigation, deletion     *)
(* and restore.                                                           *)
PageHasItsRecord ==
    /\ session.page \in TreePages =>
           \E t \in trees : t.id = session.selected_tree
    /\ session.page = "Edit Species" =>
           \E s \in species : s.id = session.selected_species

\* A tree page is shown after a backup was restored.
TreePageAfterRestore ==
    /\ session.page \in TreePages
    /\ success = "True"

----------------------------------------------------------------------------
\* The reminder with rowid id.
ReminderWithId(rows, id) == CHOOSE r \in rows : r.id = id

NotifiedOnlyWhenDue ==
    [][\A today \in Days, imported \in BOOLEAN, failing \in 1..MaxRows + 1 :
          check_reminders(today, imported, failing) =>
              \A r \in reminders :
                  /\ outbox'[r.id] > outbox[r.id] =>
                         (r.reminder_date.date <= today /\ r.notification_sent = 0)
                  /\ ReminderWithId(reminders', r.id).notification_sent # r.notification_sent
                         => outbox'[r.id] > outbox[r.id]]_vars

----------------------------------------------------------------------------
(* C30: migrate_database copies the database file to the backup before it *)
(* touches it, and when a later step fails the database file is restored  *)
(* from the backup: after migrate_database the database holds every       *)
(* species, tree, update, photo and reminder row it held before, or       *)
(* exactly what the file held before.                                     *)
MigrationAllOrNothing ==
    [][\A failing \in MigrationSteps \cup {"none"} :
          MigrateDatabase(failing) =>
              /\ backup_db' = backup_database(Rows)
              /\ \/ /\ species \subseteq species'
                    /\ trees \subseteq trees'
                    /\ updates \subseteq updates'
                    /\ photos \subseteq photos'
                    /\ reminders \subseteq reminders'
                 \/ UNCHANGED dbVars]_vars

\* A collection with a starred photo and a reminder was migrated.
CollectionMigrated ==
    /\ backup_db.exists
    /\ backup_db.trees # {}
    /\ \E p \in photos : p.is_starred = 1
    /\ reminders # {}

====
